---- MODULE Spec2Model ----
(***************************************************************************)
(* Session lifecycle of the photography-studio backend                     *)
(* (app/sessions/service.py, app/sessions/repository.py,                   *)
(* app/sessions/router.py, app/photographers/service.py).                  *)
(*                                                                         *)
(* One booking ("session") with its detail lines, payments, photographer   *)
(* assignments and status history.  An action is one HTTP handler run to   *)
(* completion: a handler that raises rolls back what it has not committed. *)
(* For the interleavings of concurrent requests a handler is also given    *)
(* in two steps (Begin..., Finish...: its reads and validation, then its   *)
(* writes and commit), and create_session in its two commits.              *)
(*                                                                         *)
(* Money: the columns are NUMERIC(10,2); a stored amount is an integer     *)
(* number of cents.  Decimal intermediates (total * 50 / 100,              *)
(* paid * 0.5) are integers counting tenths of a cent ("mills") and are    *)
(* rounded half away from zero when PostgreSQL stores them.                *)
(* Dates and timestamps are day numbers; an unset column is <<>> and a     *)
(* set one is <<d>>.                                                       *)
(***************************************************************************)
EXTENDS Integers, Sequences, FiniteSets, TLC

(* ------------------------------ bounds -------------------------------- *)
MaxDetails == 2
MaxPayments == 2
MaxAssignments == 2
MaxSessions == 2
MaxDay == 2
MaxHistory == 5
MaxTokens == 4
MaxClock == 30

(* --------------------------- configuration ---------------------------- *)
PAYMENT_DEADLINE_DAYS == 5
CHANGES_DEADLINE_DAYS == 7
DEFAULT_EDITING_DAYS == 5
DEFAULT_DEPOSIT_PERCENTAGE == 50
ACCESS_TOKEN_EXPIRE_MINUTES == 30
REFRESH_TOKEN_EXPIRE_DAYS == 30

(* ------------------------------- enums -------------------------------- *)
SessionStatus ==
  {"Request", "Negotiation", "Pre-scheduled", "Confirmed", "Assigned",
   "Attended", "In Editing", "Ready for Delivery", "Completed", "Canceled"}

PaymentType == {"Deposit", "Balance", "Partial", "Refund"}

CancellationInitiator == {"Client", "Studio"}

None == <<>>
Some(v) == <<v>>

(* ------------------------------ catalog ------------------------------- *)
(* Rows of studio.item and studio.package the handlers look up.           *)
ItemTable ==
  [I1 |-> [unit_price |-> 10000, status |-> "Active"],
   I2 |-> [unit_price |-> 2501, status |-> "Active"],
   I3 |-> [unit_price |-> 4000, status |-> "Inactive"]]

PackageTable ==
  [P0 |-> [status |-> "Active", session_type |-> "Both", items |-> <<>>],
   P1 |-> [status |-> "Active", session_type |-> "Both",
           items |-> << [item |-> "I3", quantity |-> 1],
                        [item |-> "I2", quantity |-> 1] >>],
   P2 |-> [status |-> "Active", session_type |-> "Studio",
           items |-> << [item |-> "I3", quantity |-> 2] >>],
   P3 |-> [status |-> "Inactive", session_type |-> "Both",
           items |-> << [item |-> "I1", quantity |-> 1] >>],
   P4 |-> [status |-> "Active", session_type |-> "External",
           items |-> << [item |-> "I1", quantity |-> 1] >>],
   P5 |-> [status |-> "Active", session_type |-> "Studio",
           items |-> << [item |-> "I1", quantity |-> 2],
                        [item |-> "I2", quantity |-> 1] >>]]

(* ------------------------------ inputs -------------------------------- *)
\* Request values the handlers are driven with.
Quantities == {1, 2}
PayAmounts == {1251, 2501}
Photographers == {1}
Editors == {7}
Crew == {1, 2}
Rooms == {1}
Dates == {7, 8}
Times == {"10:00", "11:00"}
\* SessionCreate bodies its validators accept: a Studio session names a
\* room, an External one does not; session_time is optional.
SessionCreates ==
  {[session_type |-> "Studio", room_id |-> <<r>>,
    session_date |-> d, session_time |-> t] :
     r \in Rooms, d \in Dates, t \in {<<>>} \cup {<<x>> : x \in Times}}
  \cup
  {[session_type |-> "External", room_id |-> <<>>,
    session_date |-> d, session_time |-> t] :
     d \in Dates, t \in {<<>>} \cup {<<x>> : x \in Times}}
\* SessionUpdate bodies, as model_dump(exclude_unset=True) sees them: for
\* each key <<>> when the key is absent and <<v>> when it is sent with
\* value v (v itself None or Some for the nullable columns).
SessionUpdates ==
  [room_id : {<<>>, << <<>> >>} \cup {<< <<r>> >> : r \in Rooms},
   session_date : {<<>>} \cup {<<d>> : d \in Dates},
   session_time : {<<>>, << <<>> >>} \cup {<< <<x>> >> : x \in Times}]
PackageIds == {"P0", "P1", "P2", "P3", "P4", "P5", "P9"}
\* ItemUpdate bodies that reprice an item, with or without its status.
ItemUpdates ==
  [unit_price : {<<12000>>}, status : {<<>>, <<"Active">>, <<"Inactive">>}]
SessionTimes == {None, Some("10:00")}
Actor == 9
\* The id of the session the model follows; the other rows of
\* studio.session have the ids 1, 2, ... of their positions.
ThisSession == 0
SessionIds == {0, 1}
\* The catalog as the sessions first find it, and the catalog of a studio
\* that has entered no item and no package yet.
Catalog == [items |-> ItemTable, packages |-> PackageTable]
EmptyCatalog == [items |-> <<>>, packages |-> <<>>]
\* The requests the server can run at the same time, and a request slot in
\* which no handler is running.
Procs == {1, 2}
NoRequest == [op |-> "idle", arg |-> <<>>, seen |-> <<>>]
Idle == [p \in Procs |-> NoRequest]

(* ------------------------------- state -------------------------------- *)
VARIABLES
  session,        \* the studio.session row
  details,        \* studio.sessiondetail rows of the session, by creation
  payments,       \* studio.sessionpayment rows of the session
  photographers,  \* studio.sessionphotographer rows of the session
  history,        \* studio.sessionstatushistory rows of the session
  sessions,       \* the other studio.session rows, each with its
                  \* studio.sessionphotographer rows
  today,          \* date.today()
  catalog,        \* the studio.item and studio.package rows
  requests,       \* the handlers in flight: what each has read so far
  users,          \* the studio.user rows
  tokens,         \* the JWTs issued so far, each as its claims
  token_blocklist, \* the Redis keys of the revoked tokens
  clock,          \* datetime.now(timezone.utc), in minutes
  last            \* the handler that ran last and how it ended

vars ==
  <<session, details, payments, photographers, history, sessions, today,
    catalog, requests, users, tokens, token_blocklist, clock, last>>

\* What the session handlers leave alone, and what the authentication
\* handlers leave alone.
accounts == <<users, tokens, token_blocklist, clock>>
studio ==
  <<session, details, payments, photographers, history, sessions, today,
    catalog, requests>>

(* ---------------------------- arithmetic ------------------------------ *)
\* A NUMERIC(10,2) value as a Decimal intermediate (mills).
Mills(cents) == cents * 10

\* PostgreSQL stores a Decimal in NUMERIC(10,2): round half away from zero.
Quantize(mills) ==
  IF mills >= 0 THEN (mills + 5) \div 10 ELSE 0 - ((5 - mills) \div 10)

RECURSIVE SumSubtotals(_)
SumSubtotals(ds) ==
  IF ds = <<>> THEN 0 ELSE Head(ds).line_subtotal + SumSubtotals(Tail(ds))

\* SELECT sum(amount) ... WHERE payment_type != 'Refund'  (NULL -> 0.00)
RECURSIVE get_total_paid(_)
get_total_paid(ps) ==
  IF ps = <<>> THEN 0
  ELSE (IF Head(ps).payment_type # "Refund" THEN Head(ps).amount ELSE 0)
       + get_total_paid(Tail(ps))

\* SELECT sum(amount) ... WHERE payment_type = 'Refund'  (NULL -> 0.00)
RECURSIVE get_total_refunded(_)
get_total_refunded(ps) ==
  IF ps = <<>> THEN 0
  ELSE (IF Head(ps).payment_type = "Refund" THEN Head(ps).amount ELSE 0)
       + get_total_refunded(Tail(ps))

(* --------------------------- state machine ---------------------------- *)
\* Variant: REQUEST may jump straight to CONFIRMED.
VALID_TRANSITIONS_SkipScheduling ==
  [s \in SessionStatus |->
     CASE s = "Request" ->
            {"Negotiation", "Pre-scheduled", "Confirmed", "Canceled"}
       [] s = "Negotiation" -> {"Pre-scheduled", "Canceled"}
       [] s = "Pre-scheduled" -> {"Confirmed", "Canceled"}
       [] s = "Confirmed" -> {"Assigned", "Canceled"}
       [] s = "Assigned" -> {"Attended", "Canceled"}
       [] s = "Attended" -> {"In Editing", "Canceled"}
       [] s = "In Editing" -> {"Ready for Delivery", "Canceled"}
       [] s = "Ready for Delivery" -> {"Completed", "Canceled"}
       [] s = "Completed" -> {}
       [] s = "Canceled" -> {}]

VALID_TRANSITIONS ==
  [s \in SessionStatus |->
     CASE s = "Request" -> {"Negotiation", "Pre-scheduled", "Canceled"}
       [] s = "Negotiation" -> {"Pre-scheduled", "Canceled"}
       [] s = "Pre-scheduled" -> {"Confirmed", "Canceled"}
       [] s = "Confirmed" -> {"Assigned", "Canceled"}
       [] s = "Assigned" -> {"Attended", "Canceled"}
       [] s = "Attended" -> {"In Editing", "Canceled"}
       [] s = "In Editing" -> {"Ready for Delivery", "Canceled"}
       [] s = "Ready for Delivery" -> {"Completed", "Canceled"}
       [] s = "Completed" -> {}
       [] s = "Canceled" -> {}]

_is_valid_transition(from_status, to_status) ==
  to_status \in VALID_TRANSITIONS[from_status]

\* Variant: a payment equal to the deposit is not enough.
deposit_unpaid_Strict(s) == s.paid_amount <= s.deposit_amount

\* if session.paid_amount < session.deposit_amount
deposit_unpaid(s) == s.paid_amount < s.deposit_amount

\* Variant: the delivery gate compares with the deposit.
not_fully_paid_AgainstDeposit(s) == s.paid_amount < s.deposit_amount

\* if session.paid_amount < session.total_amount
not_fully_paid(s) == s.paid_amount < s.total_amount

\* The session row after the per-target side effects, or the exception.
_apply_transition_logic(s, to_status, now) ==
  CASE to_status = "Pre-scheduled" ->
         [err |-> "ok",
          session |-> [s EXCEPT
            !.payment_deadline = Some(now + PAYMENT_DEADLINE_DAYS),
            !.changes_deadline = Some(s.session_date - CHANGES_DEADLINE_DAYS)]]
    [] to_status = "Confirmed" ->
         IF deposit_unpaid(s)
         THEN [err |-> "InsufficientBalance", session |-> s]
         ELSE [err |-> "ok", session |-> s]
    [] to_status = "In Editing" ->
         [err |-> "ok",
          session |-> [s EXCEPT
            !.delivery_deadline = Some(now + DEFAULT_EDITING_DAYS),
            !.editing_started_at =
               IF s.editing_started_at = None THEN Some(now)
               ELSE s.editing_started_at]]
    [] to_status = "Ready for Delivery" ->
         [err |-> "ok",
          session |-> [s EXCEPT
            !.editing_completed_at =
               IF s.editing_completed_at = None THEN Some(now)
               ELSE s.editing_completed_at]]
    [] to_status = "Completed" ->
         IF not_fully_paid(s)
         THEN [err |-> "InsufficientBalance", session |-> s]
         ELSE [err |-> "ok",
               session |-> [s EXCEPT
                 !.delivered_at =
                    IF s.delivered_at = None THEN Some(now)
                    ELSE s.delivered_at]]
    [] OTHER -> [err |-> "ok", session |-> s]

\* Variant: the newest row is overwritten instead of a row being added.
_record_status_change_Overwrite(hist, from_status, to_status) ==
  IF hist = <<>>
  THEN <<[from_status |-> from_status, to_status |-> to_status]>>
  ELSE [hist EXCEPT ![Len(hist)] = [from_status |-> from_status,
                                    to_status |-> to_status]]

_record_status_change(hist, from_status, to_status) ==
  Append(hist, [from_status |-> from_status, to_status |-> to_status])

\* SessionService.transition_status as a function of the rows it reads:
\* the exception it raises (rows untouched) or the rows it commits.
transition_status(s, hist, to_status, now) ==
  IF ~ _is_valid_transition(s.status, to_status)
  THEN [err |-> "InvalidStatusTransition", session |-> s, history |-> hist]
  ELSE LET r == _apply_transition_logic(s, to_status, now) IN
       IF r.err # "ok"
       THEN [err |-> r.err, session |-> s, history |-> hist]
       ELSE [err |-> "ok",
             session |-> [r.session EXCEPT !.status = to_status],
             history |-> _record_status_change(hist, s.status, to_status)]

(* ----------------------------- finances ------------------------------ *)
\* Variant: the net payments are added to the stored paid_amount.
recalculate_totals_Additive(s, ds, ps) ==
  LET total == SumSubtotals(ds)
      deposit == (Mills(total) * DEFAULT_DEPOSIT_PERCENTAGE) \div 100
      balance == Mills(total) - deposit
      net_paid == get_total_paid(ps) - get_total_refunded(ps)
  IN [s EXCEPT !.total_amount = total,
               !.deposit_amount = Quantize(deposit),
               !.balance_amount = Quantize(balance),
               !.paid_amount = s.paid_amount + net_paid]

\* The lines priced again from the catalog as it is now.
RECURSIVE LiveSubtotals(_)
LiveSubtotals(ds) ==
  IF ds = <<>> THEN 0
  ELSE catalog.items[Head(ds).item_code].unit_price * Head(ds).quantity
       + LiveSubtotals(Tail(ds))

\* Variant: the total is taken from the catalog's current prices.
recalculate_totals_LivePrices(s, ds, ps) ==
  LET total == LiveSubtotals(ds)
      deposit == (Mills(total) * DEFAULT_DEPOSIT_PERCENTAGE) \div 100
      balance == Mills(total) - deposit
      net_paid == get_total_paid(ps) - get_total_refunded(ps)
  IN [s EXCEPT !.total_amount = total,
               !.deposit_amount = Quantize(deposit),
               !.balance_amount = Quantize(balance),
               !.paid_amount = net_paid]

\* SessionService.recalculate_totals: the four financial columns it
\* commits, from the detail and payment rows.
recalculate_totals(s, ds, ps) ==
  LET total == SumSubtotals(ds)
      deposit == (Mills(total) * DEFAULT_DEPOSIT_PERCENTAGE) \div 100
      balance == Mills(total) - deposit
      paid == get_total_paid(ps)
      refunded == get_total_refunded(ps)
      net_paid == paid - refunded
  IN [s EXCEPT !.total_amount = total,
               !.deposit_amount = Quantize(deposit),
               !.balance_amount = Quantize(balance),
               !.paid_amount = net_paid]

\* Variant: the stored balance column is taken as what is left to pay.
remaining_balance_FromColumn(s) == s.balance_amount

\* remaining_balance = session.total_amount - session.paid_amount
remaining_balance(s) == s.total_amount - s.paid_amount

\* SessionPaymentService.record_payment.
record_payment(s, ps, payment_type, amount) ==
  IF amount > remaining_balance(s)
  THEN [err |-> "InsufficientBalance", session |-> s, payments |-> ps]
  ELSE LET paid == s.paid_amount + amount IN
       [err |-> "ok",
        session |-> [s EXCEPT !.paid_amount = paid,
                              !.balance_amount = s.total_amount - paid],
        payments |-> Append(ps, [payment_type |-> payment_type,
                                 payment_method |-> "Cash",
                                 amount |-> amount])]

(* --------------------------- cancellation ----------------------------- *)
\* Variant: the 50% tier reaches up to CONFIRMED.
_calculate_refund_HalfWhenConfirmed(s, initiated_by) ==
  IF initiated_by = "Studio" THEN Mills(s.paid_amount)
  ELSE IF s.status = "Request" THEN Mills(s.paid_amount)
  ELSE IF s.status \in {"Negotiation", "Pre-scheduled", "Confirmed"}
       THEN s.paid_amount * 5
  ELSE 0

\* SessionService._calculate_refund, as a Decimal (mills).
_calculate_refund(s, initiated_by) ==
  IF initiated_by = "Studio" THEN Mills(s.paid_amount)
  ELSE IF s.status = "Request" THEN Mills(s.paid_amount)
  ELSE IF s.status \in {"Negotiation", "Pre-scheduled"}
       THEN s.paid_amount * 5
  ELSE 0

\* Variant: only an already canceled session is refused.
cannot_cancel_OnlyCanceled(s) == s.status = "Canceled"

\* if session.status in [SessionStatus.COMPLETED, SessionStatus.CANCELED]
cannot_cancel(s) == s.status \in {"Completed", "Canceled"}

\* SessionService.cancel_session.
cancel_session(s, ps, hist, initiated_by, cancelled_by, now) ==
  IF cannot_cancel(s)
  THEN [err |-> "InvalidStatusTransition",
        session |-> s, payments |-> ps, history |-> hist]
  ELSE LET refund_amount == _calculate_refund(s, initiated_by)
           ps2 == IF refund_amount > 0
                  THEN Append(ps, [payment_type |-> "Refund",
                                   payment_method |-> "Refund",
                                   amount |-> Quantize(refund_amount)])
                  ELSE ps
           s2 == [s EXCEPT !.status = "Canceled",
                           !.cancellation_reason = Some("reason"),
                           !.cancelled_at = Some(now),
                           !.cancelled_by = Some(cancelled_by)]
       IN [err |-> "ok", session |-> s2, payments |-> ps2,
           \* the history row is written from session.status after the
           \* row was already set to CANCELED and refreshed
           history |-> _record_status_change(hist, s2.status, "Canceled")]

(* ------------------------------ details ------------------------------- *)
\* Variant: the day of the deadline is already too late.
PastChangesDeadline_Inclusive(s, now) ==
  s.changes_deadline # None /\ now >= s.changes_deadline[1]

\* session.changes_deadline and date.today() > session.changes_deadline
PastChangesDeadline(s, now) ==
  s.changes_deadline # None /\ now > s.changes_deadline[1]

NewDetail(reference_type, reference_id, item_id, quantity) ==
  [line_type |-> "Item",
   reference_type |-> reference_type,
   reference_id |-> reference_id,
   item_code |-> item_id,
   quantity |-> quantity,
   unit_price |-> catalog.items[item_id].unit_price,
   line_subtotal |-> catalog.items[item_id].unit_price * quantity]

\* SessionDetailService.add_item_to_session.
add_item_to_session(s, ds, item_id, quantity, now) ==
  IF PastChangesDeadline(s, now)
  THEN [err |-> "SessionNotEditable", details |-> ds]
  ELSE IF item_id \notin DOMAIN catalog.items
  THEN [err |-> "ItemNotFound", details |-> ds]
  ELSE IF catalog.items[item_id].status # "Active"
  THEN [err |-> "InactiveResource", details |-> ds]
  ELSE [err |-> "ok",
        details |-> Append(ds, NewDetail("Item", item_id, item_id, quantity))]

\* Variant: Inactive members are exploded too.
ExplodePackage_KeepInactive(package_id, package_items) ==
  [k \in 1..Len(package_items) |->
     NewDetail("Package", package_id, package_items[k].item,
               package_items[k].quantity)]

\* The explosion loop: one detail per member whose item is Active.
RECURSIVE ExplodePackage(_, _)
ExplodePackage(package_id, package_items) ==
  IF package_items = <<>> THEN <<>>
  ELSE LET pi == Head(package_items)
           rest == ExplodePackage(package_id, Tail(package_items))
       IN IF catalog.items[pi.item].status # "Active" THEN rest
          ELSE <<NewDetail("Package", package_id, pi.item, pi.quantity)>>
               \o rest

\* SessionDetailService.add_package_to_session.
add_package_to_session(s, ds, package_id, now) ==
  IF PastChangesDeadline(s, now)
  THEN [err |-> "SessionNotEditable", details |-> ds]
  ELSE IF package_id \notin DOMAIN catalog.packages
  THEN [err |-> "PackageNotFound", details |-> ds]
  ELSE LET package == catalog.packages[package_id] IN
  IF package.status # "Active"
  THEN [err |-> "InactiveResource", details |-> ds]
  ELSE IF package.items = <<>>
  THEN [err |-> "PackageItemsEmpty", details |-> ds]
  ELSE IF package.session_type \notin {s.session_type, "Both"}
  THEN [err |-> "InvalidSessionType", details |-> ds]
  ELSE [err |-> "ok",
        details |-> ds \o ExplodePackage(package_id, package.items)]

RemoveAt(seq, i) ==
  [j \in 1..(Len(seq) - 1) |-> IF j < i THEN seq[j] ELSE seq[j + 1]]

\* SessionDetailService.remove_detail; detail_id is the row's position.
remove_detail(s, ds, detail_id, now) ==
  IF detail_id \notin DOMAIN ds
  THEN [err |-> "ok", details |-> ds]
  ELSE IF PastChangesDeadline(s, now)
  THEN [err |-> "SessionNotEditable", details |-> ds]
  ELSE [err |-> "ok", details |-> RemoveAt(ds, detail_id)]

(* ---------------------------- assignments ----------------------------- *)
\* SessionPhotographerRepository.check_photographer_availability: no
\* assignment of the photographer on a live session at that date and time.
check_photographer_availability(s, phs, photographer_id) ==
  ~ (/\ \E k \in DOMAIN phs : phs[k].photographer_id = photographer_id
     /\ s.status \notin {"Canceled", "Completed"})

\* Variant: the assignment is stored but the session is never moved on.
assign_photographer_NoTransition(s, phs, hist, photographer_id, now) ==
  IF s.session_time # None
     /\ ~ check_photographer_availability(s, phs, photographer_id)
  THEN [err |-> "PhotographerNotAvailable",
        session |-> s, photographers |-> phs, history |-> hist]
  ELSE [err |-> "ok", session |-> s,
        photographers |-> Append(phs, [photographer_id |-> photographer_id,
                                       attended |-> FALSE]),
        history |-> hist]

\* SessionPhotographerService.assign_photographer.
assign_photographer(s, phs, hist, photographer_id, now) ==
  IF s.session_time # None
     /\ ~ check_photographer_availability(s, phs, photographer_id)
  THEN [err |-> "PhotographerNotAvailable",
        session |-> s, photographers |-> phs, history |-> hist]
  ELSE LET phs2 == Append(phs, [photographer_id |-> photographer_id,
                                attended |-> FALSE])
           r == IF s.status = "Confirmed"
                THEN transition_status(s, hist, "Assigned", now)
                ELSE [err |-> "ok", session |-> s, history |-> hist]
       IN IF r.err # "ok"
          THEN [err |-> r.err,
                session |-> s, photographers |-> phs, history |-> hist]
          ELSE [err |-> "ok", session |-> r.session,
                photographers |-> phs2, history |-> r.history]

\* Variant: the attendance is stored but the session is never moved on.
mark_attended_NoTransition(s, phs, hist, assignment_id, now) ==
  IF assignment_id \notin DOMAIN phs
  THEN [err |-> "SessionNotFound",
        session |-> s, photographers |-> phs, history |-> hist]
  ELSE [err |-> "ok", session |-> s,
        photographers |-> [phs EXCEPT ![assignment_id].attended = TRUE],
        history |-> hist]

\* SessionPhotographerService.mark_attended; assignment_id is the row's
\* position.
mark_attended(s, phs, hist, assignment_id, now) ==
  IF assignment_id \notin DOMAIN phs
  THEN [err |-> "SessionNotFound",
        session |-> s, photographers |-> phs, history |-> hist]
  ELSE LET phs2 == [phs EXCEPT ![assignment_id].attended = TRUE]
           r == IF s.status = "Assigned"
                THEN transition_status(s, hist, "Attended", now)
                ELSE [err |-> "ok", session |-> s, history |-> hist]
       IN IF r.err # "ok"
          THEN [err |-> r.err,
                session |-> s, photographers |-> phs, history |-> hist]
          ELSE [err |-> "ok", session |-> r.session,
                photographers |-> phs2, history |-> r.history]

\* PhotographerService.mark_attended (the photographer's own endpoint).
photographer_mark_attended(s, phs, hist, photographer_id, attended) ==
  LET mine == {k \in DOMAIN phs : phs[k].photographer_id = photographer_id} IN
  IF mine = {}
  THEN [err |-> "PhotographerNotAssigned",
        session |-> s, photographers |-> phs, history |-> hist]
  ELSE IF s.status # "Assigned"
  THEN [err |-> "InvalidSessionState",
        session |-> s, photographers |-> phs, history |-> hist]
  ELSE LET k == CHOOSE m \in mine : \A n \in mine : m <= n
           phs2 == [phs EXCEPT ![k].attended = attended]
           all_attended == \A n \in DOMAIN phs2 : phs2[n].attended
       IN IF attended /\ all_attended
          THEN [err |-> "ok",
                session |-> [s EXCEPT !.status = "Attended"],
                photographers |-> phs2,
                history |-> Append(hist, [from_status |-> "Assigned",
                                          to_status |-> "Attended"])]
          ELSE [err |-> "ok", session |-> s, photographers |-> phs2,
                history |-> hist]

\* SessionPhotographerRepository.remove_assignment.
remove_assignment(phs, assignment_id) ==
  IF assignment_id \in DOMAIN phs
  THEN [j \in 1..(Len(phs) - 1) |->
          IF j < assignment_id THEN phs[j] ELSE phs[j + 1]]
  ELSE phs

\* Variant: the editor is stored but the session is never moved on.
assign_editor_NoTransition(s, hist, editor_id, now) ==
  [err |-> "ok",
   session |-> [s EXCEPT !.editing_assigned_to = Some(editor_id)],
   history |-> hist]

\* SessionService.assign_editor.
assign_editor(s, hist, editor_id, now) ==
  LET s2 == [s EXCEPT !.editing_assigned_to = Some(editor_id)] IN
  IF s2.status = "Attended"
  THEN transition_status(s2, hist, "In Editing", now)
  ELSE [err |-> "ok", session |-> s2, history |-> hist]

\* SessionService.mark_ready_for_delivery.
mark_ready_for_delivery(s, hist, now) ==
  IF s.status # "In Editing"
  THEN [err |-> "InvalidStatusTransition", session |-> s, history |-> hist]
  ELSE transition_status(s, hist, "Ready for Delivery", now)

(* ------------------------------- Init --------------------------------- *)
\* The session row SessionService.create_session inserts.
create_session(session_type, room_id, session_date, session_time) ==
  [status |-> "Request",
   session_type |-> session_type,
   room_id |-> room_id,
   session_date |-> session_date,
   session_time |-> session_time,
   total_amount |-> 0,
   deposit_amount |-> 0,
   balance_amount |-> 0,
   paid_amount |-> 0,
   payment_deadline |-> None,
   changes_deadline |-> None,
   delivery_deadline |-> None,
   editing_assigned_to |-> None,
   editing_started_at |-> None,
   editing_completed_at |-> None,
   delivered_at |-> None,
   cancellation_reason |-> None,
   cancelled_at |-> None,
   cancelled_by |-> None]

\* What the handler that ran last was and how it ended; again: it was a
\* recalculate_totals directly after a recalculate_totals.
Ran(op, err) ==
  [op |-> op, err |-> err,
   again |-> op = "recalculate_totals" /\ last.op = "recalculate_totals"]

(* ---------------------------- scheduling ------------------------------ *)
\* SessionRepository.check_room_availability: no live session of the
\* table holds the room at that date and time.
check_room_availability(rows, room_id, session_date, session_time) ==
  ~ \E i \in DOMAIN rows :
      /\ rows[i].session.room_id = Some(room_id)
      /\ rows[i].session.session_date = session_date
      /\ rows[i].session.session_time = Some(session_time)
      /\ rows[i].session.status \notin {"Canceled", "Completed"}

\* SessionService.create_session over the table; the client and the room
\* exist and are Active.
create_session_in(rows, data) ==
  IF /\ data.session_type = "Studio"
     /\ data.room_id # None
     /\ data.session_time # None
     /\ ~ check_room_availability(rows, data.room_id[1], data.session_date,
                                  data.session_time[1])
  THEN [err |-> "RoomNotAvailable", sessions |-> rows]
  ELSE [err |-> "ok",
        sessions |-> Append(rows,
          [session |-> create_session(data.session_type, data.room_id,
                                      data.session_date, data.session_time),
           photographers |-> <<>>])]

\* update_dict.get(key, current)
Given(update_dict, key, current) ==
  IF update_dict[key] = <<>> THEN current ELSE update_dict[key][1]

\* Variant: the room is never looked up on an update.
update_session_Unchecked(rows, session_id, update_dict, now) ==
  LET s == rows[session_id].session IN
  IF PastChangesDeadline(s, now)
  THEN [err |-> "SessionNotEditable", sessions |-> rows]
  ELSE [err |-> "ok",
        sessions |-> [rows EXCEPT ![session_id].session =
          [s EXCEPT
             !.room_id = Given(update_dict, "room_id", s.room_id),
             !.session_date = Given(update_dict, "session_date",
                                    s.session_date),
             !.session_time = Given(update_dict, "session_time",
                                    s.session_time)]]]

\* SessionService.update_session over the table.
update_session(rows, session_id, update_dict, now) ==
  LET s == rows[session_id].session
      room_id == Given(update_dict, "room_id", s.room_id)
      session_date == Given(update_dict, "session_date", s.session_date)
      session_time == Given(update_dict, "session_time", s.session_time)
      reschedules == \/ update_dict.room_id # <<>>
                     \/ update_dict.session_date # <<>>
                     \/ update_dict.session_time # <<>>
  IN IF PastChangesDeadline(s, now)
     THEN [err |-> "SessionNotEditable", sessions |-> rows]
     ELSE IF /\ reschedules
             /\ room_id # None
             /\ session_time # None
             /\ ~ check_room_availability(rows, room_id[1], session_date,
                                          session_time[1])
     THEN [err |-> "RoomNotAvailable", sessions |-> rows]
     ELSE [err |-> "ok",
           sessions |-> [rows EXCEPT ![session_id].session =
             [s EXCEPT !.room_id = room_id,
                       !.session_date = session_date,
                       !.session_time = session_time]]]

\* SessionPhotographerRepository.check_photographer_availability over the
\* table: no assignment of the photographer on a live session at that date
\* and time.
check_photographer_availability_in(rows, photographer_id, on_date, at_time) ==
  ~ \E i \in DOMAIN rows :
      /\ \E k \in DOMAIN rows[i].photographers :
           rows[i].photographers[k].photographer_id = photographer_id
      /\ rows[i].session.session_date = on_date
      /\ rows[i].session.session_time = Some(at_time)
      /\ rows[i].session.status \notin {"Canceled", "Completed"}

\* SessionPhotographerService.assign_photographer over the table.
assign_photographer_in(rows, session_id, photographer_id, now) ==
  LET s == rows[session_id].session
      phs == rows[session_id].photographers
  IN IF /\ s.session_time # None
        /\ ~ check_photographer_availability_in(rows, photographer_id,
                                                s.session_date,
                                                s.session_time[1])
     THEN [err |-> "PhotographerNotAvailable", sessions |-> rows]
     ELSE LET r == IF s.status = "Confirmed"
                   THEN transition_status(s, <<>>, "Assigned", now)
                   ELSE [err |-> "ok", session |-> s]
          IN IF r.err # "ok"
             THEN [err |-> r.err, sessions |-> rows]
             ELSE [err |-> "ok",
                   sessions |-> [rows EXCEPT ![session_id] =
                     [session |-> r.session,
                      photographers |->
                        Append(phs, [photographer_id |-> photographer_id,
                                     attended |-> FALSE])]]]

(* ---------------------------- concurrency ----------------------------- *)
\* A handler between its reads and its writes: every handler first loads
\* and validates, awaiting the database, and only then writes and commits;
\* no query locks a row (no FOR UPDATE, the default READ COMMITTED), so
\* other requests commit in between.  arg is the request, seen the row the
\* handler loaded.
InFlight(op, arg, seen) == [op |-> op, arg |-> arg, seen |-> seen]

\* How many handlers of that kind are in flight.
Pending(op) == Cardinality({q \in Procs : requests[q].op = op})

\* self.repo.create(session) of create_session, and the commit.
insert_session(rows, data) ==
  Append(rows,
    [session |-> create_session(data.session_type, data.room_id,
                                data.session_date, data.session_time),
     photographers |-> <<>>])

\* self.repo.create(assignment) of assign_photographer, the transition of
\* a session it loaded as CONFIRMED, and the commit.
insert_assignment(rows, session_id, photographer_id, seen) ==
  [rows EXCEPT ![session_id] =
     [session |-> IF seen.status = "Confirmed"
                  THEN [@.session EXCEPT !.status = "Assigned"]
                  ELSE @.session,
      photographers |-> Append(@.photographers,
                               [photographer_id |-> photographer_id,
                                attended |-> FALSE])]]

\* The writes of record_payment and the commit: the payment row, and the
\* UPDATE of paid_amount and balance_amount to the values computed from
\* the row the handler loaded.
insert_payment(s, ps, payment_type, amount, seen) ==
  LET paid == seen.paid_amount + amount IN
  [session |-> [s EXCEPT !.paid_amount = paid,
                         !.balance_amount = seen.total_amount - paid],
   payments |-> Append(ps, [payment_type |-> payment_type,
                            payment_method |-> "Cash",
                            amount |-> amount])]

\* The writes of transition_status and the commit: the UPDATE of the
\* columns the handler changed on the row it loaded, and the history row
\* from the status it loaded.
write_transition(s, hist, to_status, seen, now) ==
  LET new == transition_status(seen, <<>>, to_status, now).session IN
  [session |-> [c \in DOMAIN s |-> IF new[c] # seen[c] THEN new[c] ELSE s[c]],
   history |-> _record_status_change(hist, seen.status, to_status)]

\* The commit of PhotographerService.mark_attended: the UPDATE of the
\* photographer's assignment row and, when the handler found every
\* assignment attended, the UPDATE of the status and the history row.
write_attendance(s, phs, hist, photographer_id, attended, all_attended) ==
  LET mine == {k \in DOMAIN phs : phs[k].photographer_id = photographer_id}
      k == CHOOSE m \in mine : \A n \in mine : m <= n
  IN [session |-> IF attended /\ all_attended
                  THEN [s EXCEPT !.status = "Attended"] ELSE s,
      photographers |-> [phs EXCEPT ![k].attended = attended],
      history |-> IF attended /\ all_attended
                  THEN Append(hist, [from_status |-> "Assigned",
                                     to_status |-> "Attended"])
                  ELSE hist]

(* ------------------------------ catalog ------------------------------- *)
\* ItemService.update_item: sqlmodel_update with the keys that were sent.
update_item(items, item_id, update_dict) ==
  IF item_id \notin DOMAIN items
  THEN [err |-> "ItemNotFound", items |-> items]
  ELSE [err |-> "ok",
        items |-> [items EXCEPT ![item_id] =
          [unit_price |-> Given(update_dict, "unit_price", @.unit_price),
           status |-> Given(update_dict, "status", @.status)]]]

\* ItemService.deactivate_item
deactivate_item(items, item_id) ==
  IF item_id \notin DOMAIN items
  THEN [err |-> "ItemNotFound", items |-> items]
  ELSE [err |-> "ok",
        items |-> [items EXCEPT ![item_id].status = "Inactive"]]

\* PackageService.deactivate_package
deactivate_package(packages, package_id) ==
  IF package_id \notin DOMAIN packages
  THEN [err |-> "PackageNotFound", packages |-> packages]
  ELSE [err |-> "ok",
        packages |-> [packages EXCEPT ![package_id].status = "Inactive"]]

(* --------------------------- authentication --------------------------- *)
\* pwd_context.hash and pwd_context.verify: the stored hash is not the
\* password, and a password verifies against the hash made from it.
hash_password(password) == <<"bcrypt", password>>

verify_password(plain_password, hashed_password) ==
  hash_password(plain_password) = hashed_password

\* The accounts of the studio; user_id is the row's position.  Users are
\* created Active.
UserTable ==
  << [email |-> "ana@studio", password_hash |-> hash_password("secret"),
      status |-> "Active"],
     [email |-> "bob@studio", password_hash |-> hash_password("secret"),
      status |-> "Active"] >>
Emails == {"ana@studio", "bob@studio", "eve@studio"}
Passwords == {"secret", "guess"}
UserIds == {1, 2, 3}
\* UserUpdate bodies that send the status.
UserUpdates == [status : {<<"Active">>, <<"Inactive">>}]
\* How long a client waits between two requests, in minutes.
Waits == {ACCESS_TOKEN_EXPIRE_MINUTES \div 2, ACCESS_TOKEN_EXPIRE_MINUTES}

\* UserRepository.find_by_email: the row's id, or None.
find_by_email(rows, email) ==
  IF \E u \in DOMAIN rows : rows[u].email = email
  THEN Some(CHOOSE u \in DOMAIN rows : rows[u].email = email)
  ELSE None

\* The claims of the tokens; jti stands for str(uuid4()).
create_access_token(sub, jti, now) ==
  [sub |-> sub, jti |-> jti, type |-> "access",
   exp |-> now + ACCESS_TOKEN_EXPIRE_MINUTES]

create_refresh_token(sub, jti, now) ==
  [sub |-> sub, jti |-> jti, type |-> "refresh",
   exp |-> now + REFRESH_TOKEN_EXPIRE_DAYS * 24 * 60]

\* jwt.decode of a token this server signed: only the expiry can fail.
decode_access_token(token, now) ==
  IF token.exp <= now THEN "TokenExpired" ELSE "ok"

verify_refresh_token(token, now) ==
  IF decode_access_token(token, now) # "ok"
  THEN decode_access_token(token, now)
  ELSE IF token.type # "refresh" THEN "InvalidToken"
  ELSE "ok"

\* token_blocklist.get(jti): a key is there until its TTL has run out.
token_in_blocklist(blocklist, jti, now) ==
  \E key \in blocklist : key.jti = jti /\ now < key.expires_at

\* token_blocklist.set(name=jti, value='revoked', ex=expiry)
add_jti_to_blocklist(blocklist, jti, expiry, now) ==
  {key \in blocklist : key.jti # jti}
    \cup {[jti |-> jti, expires_at |-> now + expiry]}

revoke_token_pair(blocklist, access_jti, refresh_jti, access_ttl, refresh_ttl, now) ==
  add_jti_to_blocklist(add_jti_to_blocklist(blocklist, access_jti,
                                            access_ttl, now),
                       refresh_jti, refresh_ttl, now)

\* get_current_user: the user a bearer token stands for.
get_current_user(rows, token, now) ==
  IF decode_access_token(token, now) # "ok"
  THEN [err |-> decode_access_token(token, now), user |-> None]
  ELSE IF find_by_email(rows, token.sub) = None
  THEN [err |-> "UserNotFound", user |-> None]
  ELSE [err |-> "ok", user |-> find_by_email(rows, token.sub)]

\* Variant: the status of the user is not looked at.
get_current_active_user_AnyStatus(rows, token, now) ==
  get_current_user(rows, token, now)

\* get_current_active_user, the dependency of every authenticated
\* endpoint (directly or through require_permission).
get_current_active_user(rows, token, now) ==
  LET r == get_current_user(rows, token, now) IN
  IF r.err # "ok" THEN r
  ELSE IF rows[r.user[1]].status # "Active"
  THEN [err |-> "InactiveUser", user |-> None]
  ELSE r

\* UserService.authenticate_user: the exception, or the token pair.
authenticate_user(rows, email, password, issued, now) ==
  LET user == find_by_email(rows, email) IN
  IF user = None \/ ~ verify_password(password, rows[user[1]].password_hash)
  THEN [err |-> "InvalidCredentials", tokens |-> {}]
  ELSE IF rows[user[1]].status # "Active"
  THEN [err |-> "InactiveUser", tokens |-> {}]
  ELSE [err |-> "ok",
        tokens |-> {create_access_token(email, issued + 1, now),
                    create_refresh_token(email, issued + 2, now)}]

\* The refresh endpoint: the exception, or the new token pair.
refresh_token(rows, blocklist, token, issued, now) ==
  IF verify_refresh_token(token, now) # "ok"
  THEN [err |-> verify_refresh_token(token, now), tokens |-> {}]
  ELSE IF token_in_blocklist(blocklist, token.jti, now)
  THEN [err |-> "InvalidToken", tokens |-> {}]
  ELSE LET user == find_by_email(rows, token.sub) IN
  IF user = None
  THEN [err |-> "UserNotFound", tokens |-> {}]
  ELSE IF rows[user[1]].status # "Active"
  THEN [err |-> "InactiveUser", tokens |-> {}]
  ELSE [err |-> "ok",
        tokens |-> {create_access_token(token.sub, issued + 1, now),
                    create_refresh_token(token.sub, issued + 2, now)}]

\* The logout endpoint after its dependency: the exception, or the
\* blocklist with the two keys, each with the rest of its token's life.
logout(blocklist, token, refresh, now) ==
  IF decode_access_token(token, now) # "ok"
  THEN [err |-> decode_access_token(token, now), blocklist |-> blocklist]
  ELSE IF verify_refresh_token(refresh, now) # "ok"
  THEN [err |-> verify_refresh_token(refresh, now), blocklist |-> blocklist]
  ELSE [err |-> "ok",
        blocklist |-> revoke_token_pair(blocklist, token.jti, refresh.jti,
                                        token.exp - now, refresh.exp - now,
                                        now)]

\* UserService.update_user with the status sent.
update_user(rows, user_id, update_dict) ==
  IF user_id \notin DOMAIN rows
  THEN [err |-> "UserNotFound", users |-> rows]
  ELSE [err |-> "ok",
        users |-> [rows EXCEPT ![user_id].status =
                     Given(update_dict, "status", @)]]

\* UserService.deactivate_user
deactivate_user(rows, user_id, deactivated_by) ==
  IF user_id \notin DOMAIN rows
  THEN [err |-> "UserNotFound", users |-> rows]
  ELSE IF user_id = deactivated_by
  THEN [err |-> "BusinessValidation", users |-> rows]
  ELSE [err |-> "ok", users |-> [rows EXCEPT ![user_id].status = "Inactive"]]

\* UserService.reactivate_user
reactivate_user(rows, user_id) ==
  IF user_id \notin DOMAIN rows
  THEN [err |-> "UserNotFound", users |-> rows]
  ELSE [err |-> "ok", users |-> [rows EXCEPT ![user_id].status = "Active"]]

(* ------------------------------- Init --------------------------------- *)
\* The studio with one session that no availability query can see: it
\* has neither a room nor a session_time; nothing is in the catalog, which
\* no booking handler reads.
BookingInit ==
  /\ session = create_session("External", None, 7, None)
  /\ details = <<>>
  /\ payments = <<>>
  /\ photographers = <<>>
  /\ history = _record_status_change(<<>>, "null", "Request")
  /\ sessions = <<>>
  /\ today = 0
  /\ catalog = EmptyCatalog
  /\ requests = Idle
  /\ users = UserTable
  /\ tokens = {}
  /\ token_blocklist = {}
  /\ clock = 0
  /\ last = [op |-> "create_session", err |-> "ok", again |-> FALSE]

Init ==
  /\ session = create_session("Studio", Some(1), 7, Some("10:00"))
  /\ details = <<>>
  /\ payments = <<>>
  /\ photographers = <<>>
  /\ history = _record_status_change(<<>>, "null", "Request")
  /\ sessions = <<>>
  /\ today = 0
  /\ catalog = Catalog
  /\ requests = Idle
  /\ users = UserTable
  /\ tokens = {}
  /\ token_blocklist = {}
  /\ clock = 0
  /\ last = [op |-> "create_session", err |-> "ok", again |-> FALSE]

\* The studio before the session is requested: no row of it anywhere.
EmptyInit ==
  /\ session = None
  /\ details = <<>>
  /\ payments = <<>>
  /\ photographers = <<>>
  /\ history = <<>>
  /\ sessions = <<>>
  /\ today = 0
  /\ catalog = Catalog
  /\ requests = Idle
  /\ users = UserTable
  /\ tokens = {}
  /\ token_blocklist = {}
  /\ clock = 0
  /\ last = [op |-> "none", err |-> "ok", again |-> FALSE]

\* A session created with or without a session_time.
CrewInit ==
  /\ \E t \in SessionTimes :
       session = create_session("Studio", Some(1), 7, t)
  /\ details = <<>>
  /\ payments = <<>>
  /\ photographers = <<>>
  /\ history = _record_status_change(<<>>, "null", "Request")
  /\ sessions = <<>>
  /\ today = 0
  /\ catalog = Catalog
  /\ requests = Idle
  /\ users = UserTable
  /\ tokens = {}
  /\ token_blocklist = {}
  /\ clock = 0
  /\ last = [op |-> "create_session", err |-> "ok", again |-> FALSE]

(* ------------------------------ actions ------------------------------- *)
\* POST /sessions/{id}/transition
TransitionStatus(to_status) ==
  LET r == transition_status(session, history, to_status, today) IN
  /\ session' = r.session
  /\ history' = r.history
  /\ last' = Ran("transition_status", r.err)
  /\ UNCHANGED <<details, payments, photographers, sessions, today,
                 catalog, requests, accounts>>

\* POST /sessions/{id}/cancel
CancelSession(initiated_by) ==
  LET r == cancel_session(session, payments, history, initiated_by, Actor,
                          today) IN
  /\ session' = r.session
  /\ payments' = r.payments
  /\ history' = r.history
  /\ last' = Ran("cancel_session", r.err)
  /\ UNCHANGED <<details, photographers, sessions, today, catalog, requests,
                 accounts>>

\* POST /sessions/{id}/details/items/{item_id}: the detail service, then
\* recalculate_totals.
AddItem(item_id, quantity) ==
  LET r == add_item_to_session(session, details, item_id, quantity, today) IN
  /\ Len(details) < MaxDetails
  /\ details' = r.details
  /\ session' = IF r.err = "ok"
                THEN recalculate_totals(session, r.details, payments)
                ELSE session
  /\ last' = Ran("add_item_to_session", r.err)
  /\ UNCHANGED <<payments, photographers, history, sessions, today,
                 catalog, requests, accounts>>

\* POST /sessions/{id}/details/packages/{package_id}: the detail service,
\* then recalculate_totals.
AddPackage(package_id) ==
  LET r == add_package_to_session(session, details, package_id, today) IN
  /\ Len(r.details) <= MaxDetails
  /\ details' = r.details
  /\ session' = IF r.err = "ok"
                THEN recalculate_totals(session, r.details, payments)
                ELSE session
  /\ last' = Ran("add_package_to_session", r.err)
  /\ UNCHANGED <<payments, photographers, history, sessions, today,
                 catalog, requests, accounts>>

\* DELETE /sessions/{id}/details/{detail_id}: the detail service, then
\* recalculate_totals.
RemoveDetail(detail_id) ==
  LET r == remove_detail(session, details, detail_id, today) IN
  /\ details' = r.details
  /\ session' = IF r.err = "ok"
                THEN recalculate_totals(session, r.details, payments)
                ELSE session
  /\ last' = Ran("remove_detail", r.err)
  /\ UNCHANGED <<payments, photographers, history, sessions, today,
                 catalog, requests, accounts>>

\* POST /sessions/{id}/recalculate
RecalculateTotals ==
  /\ session' = recalculate_totals(session, details, payments)
  /\ last' = Ran("recalculate_totals", "ok")
  /\ UNCHANGED <<details, payments, photographers, history, sessions, today,
                 catalog, requests, accounts>>

\* POST /sessions/{id}/payments
RecordPayment(payment_type, amount) ==
  LET r == record_payment(session, payments, payment_type, amount) IN
  /\ Len(payments) < MaxPayments
  /\ session' = r.session
  /\ payments' = r.payments
  /\ last' = Ran("record_payment", r.err)
  /\ UNCHANGED <<details, photographers, history, sessions, today,
                 catalog, requests, accounts>>

\* POST /sessions/{id}/photographers
AssignPhotographer(photographer_id) ==
  LET r == assign_photographer(session, photographers, history,
                               photographer_id, today) IN
  /\ Len(photographers) < MaxAssignments
  /\ session' = r.session
  /\ photographers' = r.photographers
  /\ history' = r.history
  /\ last' = Ran("assign_photographer", r.err)
  /\ UNCHANGED <<details, payments, sessions, today, catalog, requests, accounts>>

\* PATCH /sessions/{id}/photographers/{assignment_id}/attended
MarkAttended(assignment_id) ==
  LET r == mark_attended(session, photographers, history, assignment_id,
                         today) IN
  /\ session' = r.session
  /\ photographers' = r.photographers
  /\ history' = r.history
  /\ last' = Ran("mark_attended", r.err)
  /\ UNCHANGED <<details, payments, sessions, today, catalog, requests, accounts>>

\* PATCH /photographers/me/sessions/{id}/attended
PhotographerMarkAttended(photographer_id, attended) ==
  LET r == photographer_mark_attended(session, photographers, history,
                                      photographer_id, attended) IN
  /\ session' = r.session
  /\ photographers' = r.photographers
  /\ history' = r.history
  /\ last' = Ran("photographer_mark_attended", r.err)
  /\ UNCHANGED <<details, payments, sessions, today, catalog, requests, accounts>>

\* DELETE /sessions/{id}/photographers/{assignment_id}
RemoveAssignment(assignment_id) ==
  /\ photographers' = remove_assignment(photographers, assignment_id)
  /\ last' = Ran("remove_assignment", "ok")
  /\ UNCHANGED <<session, details, payments, history, sessions, today,
                 catalog, requests, accounts>>

\* PATCH /sessions/{id}/assign-editor
AssignEditor(editor_id) ==
  LET r == assign_editor(session, history, editor_id, today) IN
  /\ session' = r.session
  /\ history' = r.history
  /\ last' = Ran("assign_editor", r.err)
  /\ UNCHANGED <<details, payments, photographers, sessions, today,
                 catalog, requests, accounts>>

\* PATCH /sessions/{id}/mark-ready
MarkReadyForDelivery ==
  LET r == mark_ready_for_delivery(session, history, today) IN
  /\ session' = r.session
  /\ history' = r.history
  /\ last' = Ran("mark_ready_for_delivery", r.err)
  /\ UNCHANGED <<details, payments, photographers, sessions, today,
                 catalog, requests, accounts>>

\* POST /sessions, for another session of the table
CreateSession(data) ==
  LET r == create_session_in(sessions, data) IN
  /\ Len(r.sessions) <= MaxSessions
  /\ sessions' = r.sessions
  /\ last' = Ran("create_session", r.err)
  /\ UNCHANGED <<session, details, payments, photographers, history, today,
                 catalog, requests, accounts>>

\* PATCH /sessions/{id}
UpdateSession(session_id, update_dict) ==
  /\ session_id \in DOMAIN sessions
  /\ LET r == update_session(sessions, session_id, update_dict, today) IN
       /\ sessions' = r.sessions
       /\ last' = Ran("update_session", r.err)
  /\ UNCHANGED <<session, details, payments, photographers, history, today,
                 catalog, requests, accounts>>

\* POST /sessions/{id}/transition, for another session of the table
TransitionStatusOf(session_id, to_status) ==
  /\ session_id \in DOMAIN sessions
  /\ LET r == transition_status(sessions[session_id].session, <<>>,
                                to_status, today) IN
       /\ sessions' = [sessions EXCEPT ![session_id].session = r.session]
       /\ last' = Ran("transition_status", r.err)
  /\ UNCHANGED <<session, details, payments, photographers, history, today,
                 catalog, requests, accounts>>

\* POST /sessions/{id}/cancel, for another session of the table
CancelSessionOf(session_id, initiated_by) ==
  /\ session_id \in DOMAIN sessions
  /\ LET r == cancel_session(sessions[session_id].session, <<>>, <<>>,
                             initiated_by, Actor, today) IN
       /\ sessions' = [sessions EXCEPT ![session_id].session = r.session]
       /\ last' = Ran("cancel_session", r.err)
  /\ UNCHANGED <<session, details, payments, photographers, history, today,
                 catalog, requests, accounts>>

\* POST /sessions/{id}/photographers, for another session of the table
AssignPhotographerOf(session_id, photographer_id) ==
  /\ session_id \in DOMAIN sessions
  /\ Len(sessions[session_id].photographers) < MaxAssignments
  /\ LET r == assign_photographer_in(sessions, session_id, photographer_id,
                                     today) IN
       /\ sessions' = r.sessions
       /\ last' = Ran("assign_photographer", r.err)
  /\ UNCHANGED <<session, details, payments, photographers, history, today,
                 catalog, requests, accounts>>

\* PATCH /sessions/{id}, for the session itself: the availability query
\* runs over every row of studio.session, this one included.
UpdateThisSession(update_dict) ==
  LET rows == <<[session |-> session, photographers |-> photographers]>>
              \o sessions
      r == update_session(rows, 1, update_dict, today)
  IN /\ session' = r.sessions[1].session
     /\ last' = Ran("update_session", r.err)
     /\ UNCHANGED <<details, payments, photographers, history, sessions,
                    today, catalog, requests, accounts>>

\* Midnight: date.today() moves on; no handler has run yet on the new day.
Tick ==
  /\ today < MaxDay
  /\ today' = today + 1
  /\ last' = [op |-> "none", err |-> "ok", again |-> FALSE]
  /\ UNCHANGED <<session, details, payments, photographers, history,
                 sessions, catalog, requests, accounts>>

\* POST /sessions, request p, up to the answer of the availability query
BeginCreateSession(p, data) ==
  LET r == create_session_in(sessions, data) IN
  /\ requests[p] = NoRequest
  /\ Len(sessions) + Pending("create_session") < MaxSessions
  /\ IF r.err # "ok"
     THEN requests' = requests /\ last' = Ran("create_session", r.err)
     ELSE /\ requests' = [requests EXCEPT
                            ![p] = InFlight("create_session", data, <<>>)]
          /\ last' = last
  /\ UNCHANGED <<session, details, payments, photographers, history,
                 sessions, today, catalog, accounts>>

\* POST /sessions, request p, from the insert to the commit
FinishCreateSession(p) ==
  /\ requests[p].op = "create_session"
  /\ sessions' = insert_session(sessions, requests[p].arg)
  /\ requests' = [requests EXCEPT ![p] = NoRequest]
  /\ last' = Ran("create_session", "ok")
  /\ UNCHANGED <<session, details, payments, photographers, history, today,
                 catalog, accounts>>

\* POST /sessions/{id}/photographers, request p, up to the answer of the
\* availability query
BeginAssignPhotographer(p, session_id, photographer_id) ==
  /\ requests[p] = NoRequest
  /\ session_id \in DOMAIN sessions
  /\ Len(sessions[session_id].photographers) + Pending("assign_photographer")
       < MaxAssignments
  /\ LET s == sessions[session_id].session IN
       IF /\ s.session_time # None
          /\ ~ check_photographer_availability_in(sessions, photographer_id,
                                                  s.session_date,
                                                  s.session_time[1])
       THEN /\ requests' = requests
            /\ last' = Ran("assign_photographer", "PhotographerNotAvailable")
       ELSE /\ requests' = [requests EXCEPT ![p] =
                  InFlight("assign_photographer",
                           <<session_id, photographer_id>>, s)]
            /\ last' = last
  /\ UNCHANGED <<session, details, payments, photographers, history,
                 sessions, today, catalog, accounts>>

\* POST /sessions/{id}/photographers, request p, from the insert to the
\* commit
FinishAssignPhotographer(p) ==
  /\ requests[p].op = "assign_photographer"
  /\ sessions' = insert_assignment(sessions, requests[p].arg[1],
                                   requests[p].arg[2], requests[p].seen)
  /\ requests' = [requests EXCEPT ![p] = NoRequest]
  /\ last' = Ran("assign_photographer", "ok")
  /\ UNCHANGED <<session, details, payments, photographers, history, today,
                 catalog, accounts>>

\* POST /sessions/{id}/payments, request p, up to the balance validation
BeginRecordPayment(p, payment_type, amount) ==
  LET r == record_payment(session, payments, payment_type, amount) IN
  /\ requests[p] = NoRequest
  /\ Len(payments) + Pending("record_payment") < MaxPayments
  /\ IF r.err # "ok"
     THEN requests' = requests /\ last' = Ran("record_payment", r.err)
     ELSE /\ requests' = [requests EXCEPT ![p] =
                InFlight("record_payment", <<payment_type, amount>>,
                         session)]
          /\ last' = last
  /\ UNCHANGED <<session, details, payments, photographers, history,
                 sessions, today, catalog, accounts>>

\* POST /sessions/{id}/payments, request p, from the insert to the commit
FinishRecordPayment(p) ==
  /\ requests[p].op = "record_payment"
  /\ LET r == insert_payment(session, payments, requests[p].arg[1],
                             requests[p].arg[2], requests[p].seen) IN
       /\ session' = r.session
       /\ payments' = r.payments
  /\ requests' = [requests EXCEPT ![p] = NoRequest]
  /\ last' = Ran("record_payment", "ok")
  /\ UNCHANGED <<details, photographers, history, sessions, today, catalog,
                 accounts>>

\* POST /sessions/{id}/transition, request p, up to the end of the
\* validation
BeginTransitionStatus(p, to_status) ==
  LET r == transition_status(session, history, to_status, today) IN
  /\ requests[p] = NoRequest
  /\ Len(history) + Pending("transition_status") < MaxHistory
  /\ IF r.err # "ok"
     THEN requests' = requests /\ last' = Ran("transition_status", r.err)
     ELSE /\ requests' = [requests EXCEPT ![p] =
                InFlight("transition_status", to_status, session)]
          /\ last' = last
  /\ UNCHANGED <<session, details, payments, photographers, history,
                 sessions, today, catalog, accounts>>

\* POST /sessions/{id}/transition, request p, from the status update to
\* the commit
FinishTransitionStatus(p) ==
  /\ requests[p].op = "transition_status"
  /\ LET r == write_transition(session, history, requests[p].arg,
                               requests[p].seen, today) IN
       /\ session' = r.session
       /\ history' = r.history
  /\ requests' = [requests EXCEPT ![p] = NoRequest]
  /\ last' = Ran("transition_status", "ok")
  /\ UNCHANGED <<details, payments, photographers, sessions, today, catalog,
                 accounts>>

\* PATCH /photographers/me/sessions/{id}/attended, request p, up to the
\* answer of list_by_session: the handler has flushed its own assignment
\* row, which no other request sees before the commit, and has read the
\* committed rows of the others.  A request for an assignment row that
\* another request has flushed waits for that request's commit.
BeginPhotographerMarkAttended(p, photographer_id, attended) ==
  LET r == photographer_mark_attended(session, photographers, history,
                                      photographer_id, attended) IN
  /\ requests[p] = NoRequest
  /\ \A q \in Procs : requests[q].op = "photographer_mark_attended"
                         => requests[q].arg[1] # photographer_id
  /\ IF r.err # "ok"
     THEN /\ requests' = requests
          /\ last' = Ran("photographer_mark_attended", r.err)
     ELSE /\ requests' = [requests EXCEPT ![p] =
                InFlight("photographer_mark_attended",
                         <<photographer_id, attended>>,
                         [all_attended |->
                            \A n \in DOMAIN r.photographers :
                              r.photographers[n].attended])]
          /\ last' = last
  /\ UNCHANGED <<session, details, payments, photographers, history,
                 sessions, today, catalog, accounts>>

\* PATCH /photographers/me/sessions/{id}/attended, request p: the commit
FinishPhotographerMarkAttended(p) ==
  /\ requests[p].op = "photographer_mark_attended"
  /\ LET r == write_attendance(session, photographers, history,
                               requests[p].arg[1], requests[p].arg[2],
                               requests[p].seen.all_attended) IN
       /\ session' = r.session
       /\ photographers' = r.photographers
       /\ history' = r.history
  /\ requests' = [requests EXCEPT ![p] = NoRequest]
  /\ last' = Ran("photographer_mark_attended", "ok")
  /\ UNCHANGED <<details, payments, sessions, today, catalog, accounts>>

\* POST /sessions, request p, through `await self.db.commit()` of
\* create_session: the session row is committed, the history row is not
\* written yet.
CommitSessionRow(p, data) ==
  /\ requests[p] = NoRequest
  /\ session = None
  /\ session' = create_session(data.session_type, data.room_id,
                               data.session_date, data.session_time)
  /\ requests' = [requests EXCEPT
                    ![p] = InFlight("create_session", data, <<>>)]
  /\ last' = last
  /\ UNCHANGED <<details, payments, photographers, history, sessions, today,
                 catalog, accounts>>

\* POST /sessions, request p, from _record_status_change to the commit
\* of get_session after the handler returned.
CommitCreationHistory(p) ==
  /\ requests[p].op = "create_session"
  /\ history' = _record_status_change(history, "null", "Request")
  /\ requests' = [requests EXCEPT ![p] = NoRequest]
  /\ last' = Ran("create_session", "ok")
  /\ UNCHANGED <<session, details, payments, photographers, sessions, today,
                 catalog, accounts>>

\* POST /sessions/{id}/transition for an id that may have no row yet:
\* get_session raises SessionNotFound.
TransitionStatusById(to_status) ==
  IF session = None
  THEN /\ last' = Ran("transition_status", "SessionNotFound")
       /\ UNCHANGED <<session, details, payments, photographers, history,
                      sessions, today, catalog, requests, accounts>>
  ELSE TransitionStatus(to_status)

\* POST /sessions/{id}/cancel for an id that may have no row yet.
CancelSessionById(initiated_by) ==
  IF session = None
  THEN /\ last' = Ran("cancel_session", "SessionNotFound")
       /\ UNCHANGED <<session, details, payments, photographers, history,
                      sessions, today, catalog, requests, accounts>>
  ELSE CancelSession(initiated_by)

\* An exception in what is left of request p (the connection drops, the
\* INSERT fails, the task is cancelled): get_session rolls back what the
\* request has not committed.
AbortRequest(p) ==
  /\ requests[p] # NoRequest
  /\ requests' = [requests EXCEPT ![p] = NoRequest]
  /\ last' = Ran(requests[p].op, "Exception")
  /\ UNCHANGED <<session, details, payments, photographers, history,
                 sessions, today, catalog, accounts>>

\* DELETE /sessions/{session_id}/details/{detail_id} with any session id
\* in the path: remove_detail finds the session through the detail and
\* commits, then recalculate_totals loads the session of the path.
RemoveSessionDetail(session_id, detail_id) ==
  LET r == remove_detail(session, details, detail_id, today)
      found == session_id = ThisSession \/ session_id \in DOMAIN sessions
  IN /\ details' = r.details
     /\ session' = IF r.err = "ok" /\ session_id = ThisSession
                   THEN recalculate_totals(session, r.details, payments)
                   ELSE session
     /\ sessions' = IF r.err = "ok" /\ session_id \in DOMAIN sessions
                    THEN [sessions EXCEPT ![session_id].session =
                            recalculate_totals(@, <<>>, <<>>)]
                    ELSE sessions
     /\ last' = Ran("remove_detail",
                    IF r.err = "ok" /\ ~ found THEN "SessionNotFound"
                    ELSE r.err)
     /\ UNCHANGED <<payments, photographers, history, today, catalog,
                    requests, accounts>>

\* PATCH /items/{item_id}
UpdateItem(item_id, update_dict) ==
  LET r == update_item(catalog.items, item_id, update_dict) IN
  /\ catalog' = [catalog EXCEPT !.items = r.items]
  /\ last' = Ran("update_item", r.err)
  /\ UNCHANGED <<session, details, payments, photographers, history,
                 sessions, today, requests, accounts>>

\* DELETE /items/{item_id}
DeactivateItem(item_id) ==
  LET r == deactivate_item(catalog.items, item_id) IN
  /\ catalog' = [catalog EXCEPT !.items = r.items]
  /\ last' = Ran("deactivate_item", r.err)
  /\ UNCHANGED <<session, details, payments, photographers, history,
                 sessions, today, requests, accounts>>

\* DELETE /packages/{package_id}
DeactivatePackage(package_id) ==
  LET r == deactivate_package(catalog.packages, package_id) IN
  /\ catalog' = [catalog EXCEPT !.packages = r.packages]
  /\ last' = Ran("deactivate_package", r.err)
  /\ UNCHANGED <<session, details, payments, photographers, history,
                 sessions, today, requests, accounts>>

\* POST /auth/login
Login(email, password) ==
  LET r == authenticate_user(users, email, password, Cardinality(tokens),
                             clock) IN
  /\ Cardinality(tokens) + 2 <= MaxTokens
  /\ tokens' = tokens \cup r.tokens
  /\ last' = Ran("login", r.err)
  /\ UNCHANGED <<studio, users, token_blocklist, clock>>

\* POST /auth/refresh with any token the server has issued
RefreshToken(token) ==
  LET r == refresh_token(users, token_blocklist, token, Cardinality(tokens),
                         clock) IN
  /\ token \in tokens
  /\ Cardinality(tokens) + 2 <= MaxTokens
  /\ tokens' = tokens \cup r.tokens
  /\ last' = Ran("refresh_token", r.err)
  /\ UNCHANGED <<studio, users, token_blocklist, clock>>

\* POST /auth/logout: the bearer token and the refresh token of the body
Logout(token, refresh) ==
  LET who == get_current_active_user(users, token, clock)
      r == logout(token_blocklist, token, refresh, clock)
  IN /\ token \in tokens
     /\ refresh \in tokens
     /\ token_blocklist' = IF who.err = "ok" THEN r.blocklist
                           ELSE token_blocklist
     /\ last' = Ran("logout", IF who.err = "ok" THEN r.err ELSE who.err)
     /\ UNCHANGED <<studio, users, tokens, clock>>

\* GET /users/me, for every endpoint that only reads once its dependency
\* has let the request in
GetCurrentUserInfo(token) ==
  /\ token \in tokens
  /\ last' = Ran("get_current_user_info",
                 get_current_active_user(users, token, clock).err)
  /\ UNCHANGED <<studio, accounts>>

\* PATCH /users/{user_id}; every account holds the permission user.edit
UpdateUser(token, user_id, update_dict) ==
  LET who == get_current_active_user(users, token, clock)
      r == update_user(users, user_id, update_dict)
  IN /\ token \in tokens
     /\ users' = IF who.err = "ok" THEN r.users ELSE users
     /\ last' = Ran("update_user", IF who.err = "ok" THEN r.err ELSE who.err)
     /\ UNCHANGED <<studio, tokens, token_blocklist, clock>>

\* DELETE /users/{user_id}; every account holds the permission user.delete
DeactivateUser(token, user_id) ==
  LET who == get_current_active_user(users, token, clock)
      r == deactivate_user(users, user_id, who.user[1])
  IN /\ token \in tokens
     /\ users' = IF who.err = "ok" THEN r.users ELSE users
     /\ last' = Ran("deactivate_user",
                    IF who.err = "ok" THEN r.err ELSE who.err)
     /\ UNCHANGED <<studio, tokens, token_blocklist, clock>>

\* PUT /users/{user_id}/reactivate
ReactivateUser(token, user_id) ==
  LET who == get_current_active_user(users, token, clock)
      r == reactivate_user(users, user_id)
  IN /\ token \in tokens
     /\ users' = IF who.err = "ok" THEN r.users ELSE users
     /\ last' = Ran("reactivate_user",
                    IF who.err = "ok" THEN r.err ELSE who.err)
     /\ UNCHANGED <<studio, tokens, token_blocklist, clock>>

\* Time passes; Redis drops the keys whose TTL has run out.
Wait(minutes) ==
  /\ clock + minutes <= MaxClock
  /\ clock' = clock + minutes
  /\ token_blocklist' = {key \in token_blocklist :
                           clock + minutes < key.expires_at}
  /\ last' = [op |-> "none", err |-> "ok", again |-> FALSE]
  /\ UNCHANGED <<studio, users, tokens>>

(* --------------------------- specifications --------------------------- *)
\* The whole lifecycle: every handler that can change the status, with
\* one priced item and deposit-type payments to pass the payment gates.
Next ==
  \/ \E t \in SessionStatus : TransitionStatus(t)
  \/ \E i \in CancellationInitiator : CancelSession(i)
  \/ AddItem("I2", 1)
  \/ \E a \in PayAmounts : RecordPayment("Deposit", a)
  \/ \E p \in Photographers : AssignPhotographer(p)
  \/ \E k \in 1..MaxAssignments : MarkAttended(k)
  \/ \E p \in Photographers, b \in BOOLEAN : PhotographerMarkAttended(p, b)
  \/ \E k \in 1..MaxAssignments : RemoveAssignment(k)
  \/ \E e \in Editors : AssignEditor(e)
  \/ MarkReadyForDelivery

Spec == Init /\ [][Next]_vars

\* The state machine on its own: the generic transition and the
\* cancellation, with priced items and payments of every type.
TransitionNext ==
  \/ \E t \in SessionStatus : TransitionStatus(t)
  \/ \E i \in CancellationInitiator : CancelSession(i)
  \/ \E i \in {"I2"} : AddItem(i, 1)
  \/ \E t \in {"Deposit", "Refund"}, a \in PayAmounts : RecordPayment(t, a)
  \/ RecalculateTotals

TransitionSpec == Init /\ [][TransitionNext]_vars

\* The ledger: details and payments of a session in its early statuses.
FinanceNext ==
  \/ \E q \in Quantities : AddItem("I1", q)
  \/ AddPackage("P1")
  \/ \E d \in 1..MaxDetails : RemoveDetail(d)
  \/ RecalculateTotals
  \/ \E t \in {"Deposit", "Refund"}, a \in PayAmounts : RecordPayment(t, a)
  \/ \E i \in CancellationInitiator : CancelSession(i)
  \/ TransitionStatus("Pre-scheduled")

FinanceSpec == Init /\ [][FinanceNext]_vars

\* The crew: photographers and editor of a session without charges, from
\* its creation to its delivery or cancellation.
CrewNext ==
  \/ \E t \in SessionStatus : TransitionStatus(t)
  \/ CancelSession("Studio")
  \/ \E p \in Crew : AssignPhotographer(p)
  \/ \E k \in 1..MaxAssignments : MarkAttended(k)
  \/ \E p \in Crew, b \in BOOLEAN : PhotographerMarkAttended(p, b)
  \/ \E k \in 1..MaxAssignments : RemoveAssignment(k)
  \/ \E e \in Editors : AssignEditor(e)
  \/ MarkReadyForDelivery

CrewSpec == CrewInit /\ [][CrewNext]_vars

\* The detail lines: every package of the catalog, one item, removal.
PackageNext ==
  \/ \E p \in PackageIds : AddPackage(p)
  \/ \E q \in Quantities : AddItem("I1", q)
  \/ \E d \in 1..MaxDetails : RemoveDetail(d)

PackageSpec == Init /\ [][PackageNext]_vars

\* The room calendar: Studio sessions are created, rescheduled one column
\* at a time, moved on and canceled.
RoomNext ==
  \/ \E data \in {c \in SessionCreates : c.session_type = "Studio"} :
       CreateSession(data)
  \/ \E i \in 1..MaxSessions,
        u \in {v \in SessionUpdates :
                 \/ v.room_id = <<>> /\ v.session_date = <<>>
                 \/ v.room_id = <<>> /\ v.session_time = <<>>
                 \/ v.session_date = <<>> /\ v.session_time = <<>>} :
       UpdateSession(i, u)
  \/ \E i \in 1..MaxSessions : TransitionStatusOf(i, "Negotiation")
  \/ \E i \in 1..MaxSessions : CancelSessionOf(i, "Studio")

RoomSpec == BookingInit /\ [][RoomNext]_vars

\* The photographers' calendar: External sessions are created,
\* rescheduled, staffed and canceled.
RosterNext ==
  \/ \E data \in {c \in SessionCreates : c.session_type = "External"} :
       CreateSession(data)
  \/ \E i \in 1..MaxSessions,
        u \in {v \in SessionUpdates : v.room_id = <<>>} : UpdateSession(i, u)
  \/ \E i \in 1..MaxSessions : TransitionStatusOf(i, "Negotiation")
  \/ \E i \in 1..MaxSessions : CancelSessionOf(i, "Studio")
  \/ \E i \in 1..MaxSessions, p \in Photographers :
       AssignPhotographerOf(i, p)

RosterSpec == BookingInit /\ [][RosterNext]_vars

\* The catalog under the detail lines: items are repriced and retired,
\* a package is retired, while lines are added, removed and totalled.
CatalogNext ==
  \/ \E i \in {"I1", "I9"}, u \in ItemUpdates : UpdateItem(i, u)
  \/ \E i \in {"I2", "I9"} : DeactivateItem(i)
  \/ \E p \in {"P5", "P9"} : DeactivatePackage(p)
  \/ \E q \in Quantities : AddItem("I1", q)
  \/ AddPackage("P5")
  \/ \E d \in 1..MaxDetails : RemoveDetail(d)
  \/ RecalculateTotals

CatalogSpec == Init /\ [][CatalogNext]_vars

\* The changes window: a session is pre-scheduled, the days pass, and its
\* lines and its date are edited before and after the deadline.
WindowNext ==
  \/ Tick
  \/ TransitionStatus("Pre-scheduled")
  \/ AddItem("I1", 1)
  \/ AddPackage("P1")
  \/ \E d \in 1..MaxDetails : RemoveDetail(d)
  \/ \E u \in {v \in SessionUpdates :
                 /\ v.room_id = <<>>
                 /\ v.session_time = <<>>
                 /\ v.session_date # <<>>} : UpdateThisSession(u)

WindowSpec == Init /\ [][WindowNext]_vars

\* Two requests at a time on the calendar: sessions are booked for one
\* day and photographers assigned to them, each handler in two steps.
SlotRaceNext ==
  \/ \E p \in Procs,
        data \in {c \in SessionCreates :
                    c.session_date = 7 /\ c.session_time # None} :
       BeginCreateSession(p, data)
  \/ \E p \in Procs : FinishCreateSession(p)
  \/ \E p \in Procs, i \in 1..MaxSessions, ph \in Photographers :
       BeginAssignPhotographer(p, i, ph)
  \/ \E p \in Procs : FinishAssignPhotographer(p)

SlotRaceSpec == BookingInit /\ [][SlotRaceNext]_vars

\* Two requests at a time on the ledger: lines are added and payments
\* recorded, each payment in two steps.
PaymentRaceNext ==
  \/ \E i \in {"I1", "I2"} : AddItem(i, 1)
  \/ \E p \in Procs, a \in PayAmounts : BeginRecordPayment(p, "Deposit", a)
  \/ \E p \in Procs : FinishRecordPayment(p)

PaymentRaceSpec == Init /\ [][PaymentRaceNext]_vars

\* Two requests at a time on the status: generic transitions in two
\* steps, and the cancellation.
TransitionRaceNext ==
  \/ \E p \in Procs, t \in SessionStatus : BeginTransitionStatus(p, t)
  \/ \E p \in Procs : FinishTransitionStatus(p)
  \/ CancelSession("Studio")

TransitionRaceSpec == Init /\ [][TransitionRaceNext]_vars

\* The units of work of a session's life: its creation in the two commits
\* of create_session, then its transitions and its cancellation.
UnitOfWorkNext ==
  \/ \E p \in Procs, data \in SessionCreates : CommitSessionRow(p, data)
  \/ \E p \in Procs : CommitCreationHistory(p)
  \/ \E p \in Procs : AbortRequest(p)
  \/ \E t \in SessionStatus : TransitionStatusById(t)
  \/ \E i \in CancellationInitiator : CancelSessionById(i)

UnitOfWorkSpec == EmptyInit /\ [][UnitOfWorkNext]_vars

\* The endpoints that can refuse a request, on a session with lines and
\* a payment, over the days around its changes deadline.
EndpointNext ==
  \/ Tick
  \/ AddItem("I1", 1)
  \/ \E p \in {"P1", "P3"} : AddPackage(p)
  \/ \E i \in SessionIds, d \in 1..MaxDetails : RemoveSessionDetail(i, d)
  \/ RecordPayment("Deposit", 2501)
  \/ \E t \in {"Pre-scheduled", "Confirmed"} : TransitionStatus(t)

EndpointSpec == Init /\ [][EndpointNext]_vars

\* The way to the shooting day: a session gets its lines and its
\* payments, is moved through the statuses, staffed and attended.
PathNext ==
  \/ AddItem("I2", 1)
  \/ RecordPayment("Deposit", 1251)
  \/ \E t \in SessionStatus : TransitionStatus(t)
  \/ \E p \in Crew : AssignPhotographer(p)
  \/ \E k \in 1..MaxAssignments : MarkAttended(k)

PathSpec == Init /\ [][PathNext]_vars

\* Two requests at a time on the attendance: a session is confirmed and
\* staffed, and its photographers mark themselves, each mark in two steps.
AttendanceRaceNext ==
  \/ \E t \in {"Pre-scheduled", "Confirmed"} : TransitionStatus(t)
  \/ \E ph \in Crew : AssignPhotographer(ph)
  \/ \E p \in Procs, ph \in Crew, b \in BOOLEAN :
       BeginPhotographerMarkAttended(p, ph, b)
  \/ \E p \in Procs : FinishPhotographerMarkAttended(p)

AttendanceRaceSpec == Init /\ [][AttendanceRaceNext]_vars

\* The accounts: users log in, refresh and log out, are deactivated and
\* reactivated by one another, while the tokens age.
AuthNext ==
  \/ \E e \in Emails, pw \in Passwords : Login(e, pw)
  \/ \E t \in tokens : RefreshToken(t)
  \/ \E t, r \in tokens : Logout(t, r)
  \/ \E t \in tokens : GetCurrentUserInfo(t)
  \/ \E t \in tokens, u \in UserIds, d \in UserUpdates : UpdateUser(t, u, d)
  \/ \E t \in tokens, u \in UserIds : DeactivateUser(t, u)
  \/ \E t \in tokens, u \in UserIds : ReactivateUser(t, u)
  \/ \E m \in Waits : Wait(m)

AuthSpec == EmptyInit /\ [][AuthNext]_vars

(* ------------------------------ claims -------------------------------- *)
Terminal == {"Completed", "Canceled"}

\* The transition table as the specification states it.
AllowedTargets(from_status) ==
  CASE from_status = "Request" -> {"Negotiation", "Pre-scheduled", "Canceled"}
    [] from_status = "Negotiation" -> {"Pre-scheduled", "Canceled"}
    [] from_status = "Pre-scheduled" -> {"Confirmed", "Canceled"}
    [] from_status = "Confirmed" -> {"Assigned", "Canceled"}
    [] from_status = "Assigned" -> {"Attended", "Canceled"}
    [] from_status = "Attended" -> {"In Editing", "Canceled"}
    [] from_status = "In Editing" -> {"Ready for Delivery", "Canceled"}
    [] from_status = "Ready for Delivery" -> {"Completed", "Canceled"}
    [] OTHER -> {}

PaymentPreconditionHolds(s, to_status) ==
  /\ to_status = "Confirmed" => s.paid_amount >= s.deposit_amount
  /\ to_status = "Completed" => s.paid_amount >= s.total_amount

\* C1 (TransitionSpec): transition closure.  A transition_status call to a
\* target outside the table of the current status ends in
\* InvalidStatusTransition and leaves the session row and the history as
\* they were; a call to a target in the table whose payment precondition
\* holds sets the status to the target and appends exactly one history row
\* current -> target.
C1_TransitionClosure ==
  [][\A t \in SessionStatus :
       (last'.op = "transition_status" /\ TransitionStatus(t)) =>
         IF t \notin AllowedTargets(session.status)
         THEN /\ last'.err = "InvalidStatusTransition"
              /\ session' = session
              /\ history' = history
         ELSE PaymentPreconditionHolds(session, t) =>
                /\ last'.err = "ok"
                /\ session'.status = t
                /\ history' = Append(history,
                                     [from_status |-> session.status,
                                      to_status |-> t])]_vars

\* C1 witness: a session that has made at least two transitions has just
\* had a transition refused.
C1_Witness ==
  /\ last.op = "transition_status"
  /\ last.err = "InvalidStatusTransition"
  /\ Len(history) >= 3
  /\ history[Len(history)].to_status = session.status
  /\ session.status \notin Terminal

\* C2 (Spec): terminal statuses are absorbing.  From COMPLETED or CANCELED
\* no handler changes the status; transition_status and cancel_session end
\* in InvalidStatusTransition and add neither a history row nor a payment.
C2_TerminalAbsorbing ==
  [][session.status \in Terminal =>
       /\ session'.status = session.status
       /\ last'.op \in {"transition_status", "cancel_session"} =>
            /\ last'.err = "InvalidStatusTransition"
            /\ history' = history
            /\ payments' = payments]_vars

\* C2 witness: a COMPLETED session with money paid has just refused a
\* cancellation.
C2_Witness ==
  /\ session.status = "Completed"
  /\ session.paid_amount > 0
  /\ last.op = "cancel_session"
  /\ last.err = "InvalidStatusTransition"

\* C8 (Spec): deposit gate.  PRE_SCHEDULED -> CONFIRMED succeeds exactly
\* when paid_amount >= deposit_amount; otherwise InsufficientBalance, the
\* status stays PRE_SCHEDULED and no history row is appended.
C8_DepositGate ==
  [][(/\ session.status = "Pre-scheduled"
      /\ last'.op = "transition_status"
      /\ TransitionStatus("Confirmed")) =>
       IF session.paid_amount >= session.deposit_amount
       THEN /\ last'.err = "ok"
            /\ session'.status = "Confirmed"
            /\ Len(history') = Len(history) + 1
       ELSE /\ last'.err = "InsufficientBalance"
            /\ session'.status = "Pre-scheduled"
            /\ history' = history]_vars

\* C8 witness: CONFIRMED was refused to a session that has paid something,
\* but less than its deposit.
C8_Witness ==
  /\ session.status = "Pre-scheduled"
  /\ last.op = "transition_status"
  /\ last.err = "InsufficientBalance"
  /\ session.paid_amount > 0
  /\ session.paid_amount < session.deposit_amount

\* C9 (Spec): full-payment gate.  READY_FOR_DELIVERY -> COMPLETED succeeds
\* exactly when paid_amount >= total_amount; otherwise InsufficientBalance,
\* the status stays READY_FOR_DELIVERY, delivered_at stays unset and no
\* history row is appended.  No step enters COMPLETED with
\* paid_amount < total_amount.
C9_FullPaymentGate ==
  [][/\ (/\ session.status = "Ready for Delivery"
         /\ last'.op = "transition_status"
         /\ TransitionStatus("Completed"))
        => IF session.paid_amount >= session.total_amount
           THEN /\ last'.err = "ok"
                /\ session'.status = "Completed"
                /\ session'.delivered_at # None
                /\ Len(history') = Len(history) + 1
           ELSE /\ last'.err = "InsufficientBalance"
                /\ session'.status = "Ready for Delivery"
                /\ session'.delivered_at = None
                /\ history' = history
     /\ (session.status # "Completed" /\ session'.status = "Completed")
        => /\ session.paid_amount >= session.total_amount
           /\ session'.paid_amount >= session'.total_amount]_vars

\* C9 witness: COMPLETED was refused to a session that has paid its
\* deposit but not its total.
C9_Witness ==
  /\ session.status = "Ready for Delivery"
  /\ last.op = "transition_status"
  /\ last.err = "InsufficientBalance"
  /\ session.paid_amount >= session.deposit_amount
  /\ session.paid_amount < session.total_amount
  /\ session.delivered_at = None

\* The refund matrix as the specification states it, in percent.
RefundPercent(status, initiated_by) ==
  IF initiated_by = "Studio" THEN 100
  ELSE IF status = "Request" THEN 100
  ELSE IF status \in {"Negotiation", "Pre-scheduled"} THEN 50
  ELSE 0

C3_BalanceInvariant ==
  (/\ last.op \in {"add_item_to_session", "add_package_to_session",
                   "remove_detail", "recalculate_totals", "record_payment"}
   /\ last.err = "ok")
  => session.balance_amount = session.total_amount - session.paid_amount

\* Sum of the non-Refund payments minus sum of the Refund payments.
RECURSIVE LedgerNet(_)
LedgerNet(ps) ==
  IF ps = <<>> THEN 0
  ELSE LedgerNet(Tail(ps))
       + (IF Head(ps).payment_type = "Refund" THEN 0 - Head(ps).amount
          ELSE Head(ps).amount)

\* C4 (FinanceSpec): ledger invariant.  After any sequence of
\* record_payment, cancel_session and recalculate_totals, paid_amount is
\* the sum of the non-Refund payments minus the sum of the Refund payments.
C4_LedgerInvariant == session.paid_amount = LedgerNet(payments)

RECURSIVE DetailTotal(_)
DetailTotal(ds) ==
  IF ds = <<>> THEN 0
  ELSE Head(ds).unit_price * Head(ds).quantity + DetailTotal(Tail(ds))

\* C5 (FinanceSpec): what recalculate_totals writes.  total_amount is the
\* sum of the line subtotals, deposit_amount is 50% of it (to the cent),
\* paid_amount is the net of the payments and balance_amount is
\* total_amount minus that net; one detail of 100.00 x 2 and no payment
\* give total 200.00, deposit 100.00, balance 200.00, paid 0.00.
C5_RecalculateFormula ==
  last.op = "recalculate_totals" =>
    /\ session.total_amount = DetailTotal(details)
    /\ 100 * session.deposit_amount - 50 * session.total_amount \in {0, 50}
    /\ session.paid_amount = LedgerNet(payments)
    /\ session.balance_amount = session.total_amount - LedgerNet(payments)
    /\ (/\ Len(details) = 1
        /\ details[1].unit_price = 10000
        /\ details[1].quantity = 2
        /\ payments = <<>>)
       => /\ session.total_amount = 20000
          /\ session.deposit_amount = 10000
          /\ session.balance_amount = 20000
          /\ session.paid_amount = 0

\* C6 (FinanceSpec): recalculate_totals is idempotent.  A
\* recalculate_totals that directly follows a recalculate_totals leaves
\* total_amount, deposit_amount, balance_amount and paid_amount as the
\* first one wrote them.
C6_RecalculateIdempotent ==
  [][(last.op = "recalculate_totals" /\ last'.op = "recalculate_totals") =>
       /\ session'.total_amount = session.total_amount
       /\ session'.deposit_amount = session.deposit_amount
       /\ session'.balance_amount = session.balance_amount
       /\ session'.paid_amount = session.paid_amount]_vars

\* C6 witness: recalculate_totals has run twice in a row on a session with
\* a detail line, a payment and a refund.
C6_Witness ==
  /\ last.op = "recalculate_totals"
  /\ last.again
  /\ details # <<>>
  /\ \E k \in DOMAIN payments : payments[k].payment_type = "Refund"
  /\ \E k \in DOMAIN payments : payments[k].payment_type # "Refund"

\* C7 (FinanceSpec): record_payment is accepted exactly when
\* amount <= total_amount - paid_amount; otherwise it ends in
\* InsufficientBalance, adds no payment row and leaves paid_amount and
\* balance_amount unchanged.
C7_PaymentAcceptance ==
  [][\A t \in PaymentType, a \in PayAmounts :
       (last'.op = "record_payment" /\ RecordPayment(t, a)) =>
         IF a <= session.total_amount - session.paid_amount
         THEN /\ last'.err = "ok"
              /\ Len(payments') = Len(payments) + 1
              /\ payments'[Len(payments')].amount = a
              /\ payments'[Len(payments')].payment_type = t
         ELSE /\ last'.err = "InsufficientBalance"
              /\ payments' = payments
              /\ session'.paid_amount = session.paid_amount
              /\ session'.balance_amount = session.balance_amount]_vars

\* C7 witness: a payment was refused on a session that has a total and
\* has already taken a payment.
C7_Witness ==
  /\ last.op = "record_payment"
  /\ last.err = "InsufficientBalance"
  /\ session.total_amount > 0
  /\ payments # <<>>
  /\ session.total_amount - session.paid_amount > 0

\* The refund matrix as the docstrings of cancel_session and of the cancel
\* endpoint state it, in percent.
DocumentedRefundPercent(status, initiated_by) ==
  IF status \in {"Request", "Negotiation"} THEN 100
  ELSE IF initiated_by = "Studio" THEN 100
  ELSE IF status \in {"Pre-scheduled", "Confirmed"} THEN 50
  ELSE 0

\* C11 (TransitionSpec): the documented refund matrix.  A cancel_session on
\* a non-terminal session refunds DocumentedRefundPercent of the
\* paid_amount it finds: 100% before Pre-scheduled whoever initiates, 50%
\* (Client) or 100% (Studio) in Pre-scheduled and Confirmed, nothing
\* (Client) or 100% (Studio) later.
C11_DocumentedRefundMatrix ==
  [][\A i \in CancellationInitiator :
       (/\ session.status \notin Terminal
        /\ last'.op = "cancel_session"
        /\ CancelSession(i)) =>
         LET due == session.paid_amount
                    * DocumentedRefundPercent(session.status, i) IN
         IF due > 0
         THEN \E a \in 1..session.paid_amount :
                /\ 100 * a - due \in {0, 50}
                /\ payments' = Append(payments,
                                      [payment_type |-> "Refund",
                                       payment_method |-> "Refund",
                                       amount |-> a])
         ELSE payments' = payments]_vars

\* C12 (TransitionSpec): what a successful cancel_session writes.  On a
\* session in a non-terminal status s it sets status = CANCELED, records
\* cancellation_reason, cancelled_at and cancelled_by, and appends exactly
\* one history row with from_status = s and to_status = CANCELED.
C12_CancelHistoryRow ==
  [][\A i \in CancellationInitiator :
       (/\ session.status \notin Terminal
        /\ last'.op = "cancel_session"
        /\ CancelSession(i)) =>
         /\ session'.status = "Canceled"
         /\ session'.cancellation_reason # None
         /\ session'.cancelled_at # None
         /\ session'.cancelled_by = Some(Actor)
         /\ history' = Append(history, [from_status |-> session.status,
                                        to_status |-> "Canceled"])]_vars

C14_AttendedWhenAllAttended ==
  [][(/\ session.status = "Assigned"
      /\ last'.op \in {"mark_attended", "photographer_mark_attended"}
      /\ last'.err = "ok") =>
       IF \A k \in DOMAIN photographers' : photographers'[k].attended
       THEN session'.status = "Attended"
       ELSE session'.status = "Assigned"]_vars

\* C15 (CrewSpec): a successful assign_photographer creates the assignment
\* row; on a CONFIRMED session it moves the session to ASSIGNED and
\* appends the one history row CONFIRMED -> ASSIGNED; in every other
\* status it leaves the session row and the history as they were.
C15_AssignPhotographerTransition ==
  [][\A p \in Crew :
       (/\ last'.op = "assign_photographer"
        /\ last'.err = "ok"
        /\ AssignPhotographer(p)) =>
         /\ photographers' = Append(photographers,
                                    [photographer_id |-> p,
                                     attended |-> FALSE])
         /\ IF session.status = "Confirmed"
            THEN /\ session'.status = "Assigned"
                 /\ history' = Append(history,
                                      [from_status |-> "Confirmed",
                                       to_status |-> "Assigned"])
            ELSE /\ session' = session
                 /\ history' = history]_vars

\* C15 witness: a second photographer has joined a session that the first
\* assignment had already moved from CONFIRMED to ASSIGNED.
C15_Witness ==
  /\ last.op = "assign_photographer"
  /\ last.err = "ok"
  /\ session.status = "Assigned"
  /\ Len(photographers) = 2
  /\ history[Len(history)] = [from_status |-> "Confirmed",
                              to_status |-> "Assigned"]

C19_OneRowPerPhotographer ==
  \A j, k \in DOMAIN photographers :
    j # k => photographers[j].photographer_id
             # photographers[k].photographer_id

IsActiveMember(member) == catalog.items[member.item].status = "Active"

\* C20 (PackageSpec): package explosion.  A successful
\* add_package_to_session for a package with N Active members keeps the
\* existing detail rows and adds exactly N rows after them, one per Active
\* member in order, each with the item's unit_price, the member's quantity
\* and line_subtotal = unit_price x quantity; a package already on the
\* session is exploded again.
C20_PackageExplosion ==
  [][\A p \in PackageIds :
       (/\ last'.op = "add_package_to_session"
        /\ last'.err = "ok"
        /\ AddPackage(p)) =>
         LET active == SelectSeq(PackageTable[p].items, IsActiveMember)
             n == Len(details)
         IN /\ Len(details') = n + Len(active)
            /\ SubSeq(details', 1, n) = details
            /\ \A k \in 1..Len(active) :
                 LET row == details'[n + k]
                     price == ItemTable[active[k].item].unit_price
                 IN /\ row.reference_type = "Package"
                    /\ row.reference_id = p
                    /\ row.item_code = active[k].item
                    /\ row.unit_price = price
                    /\ row.quantity = active[k].quantity
                    /\ row.line_subtotal = price * active[k].quantity]_vars

\* C20 witness: the same package has been added twice and its one Active
\* member is on the session twice.
C20_Witness ==
  /\ last.op = "add_package_to_session"
  /\ last.err = "ok"
  /\ Len(details) = 2
  /\ details[1] = details[2]
  /\ details[1].reference_type = "Package"
  /\ details[1].reference_id = "P1"

Live(row) == row.session.status \notin Terminal

\* Two rows of the table hold the same room at the same date and the same
\* non-empty time.
SameRoomSlot(a, b) ==
  /\ a.session.room_id # None
  /\ a.session.room_id = b.session.room_id
  /\ a.session.session_date = b.session.session_date
  /\ a.session.session_time # None
  /\ a.session.session_time = b.session.session_time

NoRoomDoubleBooking(rows) ==
  \A i, j \in DOMAIN rows :
    (i < j /\ Live(rows[i]) /\ Live(rows[j]))
    => ~ SameRoomSlot(rows[i], rows[j])

\* C17 (RoomSpec): room double-booking.  After every step no two live
\* sessions hold the same room at the same date and the same non-empty
\* time; a create_session of a Studio session with a time fails with
\* RoomNotAvailable and creates nothing when a live session holds that
\* slot, and otherwise (another time, another date, or the holder is
\* CANCELED) creates the session.
C17_RoomDoubleBooking ==
  [][/\ NoRoomDoubleBooking(sessions')
     /\ \A data \in SessionCreates :
          (/\ last'.op = "create_session"
           /\ data.session_type = "Studio"
           /\ data.session_time # None
           /\ CreateSession(data)) =>
            LET new == [session |-> create_session(data.session_type,
                                                   data.room_id,
                                                   data.session_date,
                                                   data.session_time),
                        photographers |-> <<>>]
            IN IF \E i \in DOMAIN sessions :
                    Live(sessions[i]) /\ SameRoomSlot(sessions[i], new)
               THEN last'.err = "RoomNotAvailable" /\ sessions' = sessions
               ELSE last'.err = "ok" /\ sessions' = Append(sessions, new)]_vars

\* C17 witness: a slot was canceled and booked again by another session,
\* and a further create_session for it has just been refused.
C17_Witness ==
  /\ last.op = "create_session"
  /\ last.err = "RoomNotAvailable"
  /\ Len(sessions) = 2
  /\ sessions[1].session.status = "Canceled"
  /\ Live(sessions[2])
  /\ SameRoomSlot(sessions[1], sessions[2])

\* C18 (RosterSpec): photographer double-booking.  No photographer is
\* assigned to two live sessions that have the same session_date and the
\* same session_time.
C18_PhotographerDoubleBooking ==
  \A i, j \in DOMAIN sessions :
    (/\ i < j
     /\ Live(sessions[i])
     /\ Live(sessions[j])
     /\ sessions[i].session.session_date = sessions[j].session.session_date
     /\ sessions[i].session.session_time # None
     /\ sessions[i].session.session_time = sessions[j].session.session_time)
    => ~ \E a \in DOMAIN sessions[i].photographers,
            b \in DOMAIN sessions[j].photographers :
           sessions[i].photographers[a].photographer_id
             = sessions[j].photographers[b].photographer_id

\* C21 (PackageSpec): a package without addable items.  An
\* add_package_to_session for an Active package of the session's type ends
\* in PackageItemsEmpty and creates no detail row both when the package has
\* no member at all and when every member's item is Inactive.
C21_PackageItemsEmpty ==
  [][\A p \in DOMAIN PackageTable :
       (/\ last'.op = "add_package_to_session"
        /\ PackageTable[p].status = "Active"
        /\ PackageTable[p].session_type \in {session.session_type, "Both"}
        /\ SelectSeq(PackageTable[p].items, IsActiveMember) = <<>>
        /\ AddPackage(p)) =>
         /\ last'.err = "PackageItemsEmpty"
         /\ details' = details]_vars

\* C22 (CatalogSpec): price snapshot.  No step changes a detail row that
\* exists: a step other than a removal keeps every row, field by field,
\* and a removal only takes one row away; this also when the item is
\* repriced or retired, its package retired, or the totals recalculated.
\* The total_amount a handler recalculates is the sum of the captured
\* unit_price x quantity of the rows.
C22_PriceSnapshot ==
  [][/\ IF last'.op = "remove_detail"
        THEN \/ details' = details
             \/ \E d \in DOMAIN details : details' = RemoveAt(details, d)
        ELSE /\ Len(details') >= Len(details)
             /\ SubSeq(details', 1, Len(details)) = details
     /\ (/\ last'.op \in {"add_item_to_session", "add_package_to_session",
                          "remove_detail", "recalculate_totals"}
         /\ last'.err = "ok")
        => session'.total_amount = DetailTotal(details')]_vars

\* C22 witness: the totals were recalculated for a line that holds the
\* price of an item repriced and retired since.
C22_Witness ==
  /\ last.op = "recalculate_totals"
  /\ catalog.items["I1"].unit_price = 12000
  /\ catalog.items["I1"].status = "Inactive"
  /\ \E d \in DOMAIN details :
       details[d].item_code = "I1" /\ details[d].unit_price = 10000
  /\ session.total_amount = DetailTotal(details)

\* C23 (WindowSpec): the changes window.  add_item_to_session,
\* add_package_to_session, remove_detail of an existing line and
\* update_session end in SessionNotEditable, changing no detail row and no
\* session column, exactly when the session has a changes_deadline and
\* today is after it; with no changes_deadline, or with
\* changes_deadline >= today, they never end in SessionNotEditable.
C23_ChangesWindow ==
  [][(/\ last'.op \in {"add_item_to_session", "add_package_to_session",
                       "remove_detail", "update_session"}
      /\ last'.op = "remove_detail" =>
           \E d \in DOMAIN details : RemoveDetail(d))
     => IF /\ session.changes_deadline # None
           /\ today > session.changes_deadline[1]
        THEN /\ last'.err = "SessionNotEditable"
             /\ details' = details
             /\ session' = session
        ELSE last'.err # "SessionNotEditable"]_vars

\* C23 witness: a session with a line, rescheduled before it was
\* pre-scheduled, has had a change refused on the day after its deadline.
C23_Witness ==
  /\ last.err = "SessionNotEditable"
  /\ last.op = "update_session"
  /\ details # <<>>
  /\ session.session_date = 8
  /\ session.changes_deadline = Some(1)
  /\ today = 2

\* C24 (FinanceSpec): terminal immutability.  On a COMPLETED or CANCELED
\* session add_item_to_session, add_package_to_session, remove_detail,
\* record_payment and update_session add and remove no detail and no
\* payment row and leave total_amount, deposit_amount, balance_amount and
\* paid_amount as they were.
C24_TerminalImmutable ==
  [][(/\ session.status \in Terminal
      /\ last'.op \in {"add_item_to_session", "add_package_to_session",
                       "remove_detail", "record_payment", "update_session"})
     => /\ details' = details
        /\ payments' = payments
        /\ session'.total_amount = session.total_amount
        /\ session'.deposit_amount = session.deposit_amount
        /\ session'.balance_amount = session.balance_amount
        /\ session'.paid_amount = session.paid_amount]_vars

\* C25 (TransitionSpec): CANCELED is entered only through cancel_session.
\* In every reachable state a CANCELED session has cancellation_reason,
\* cancelled_at and cancelled_by set.
C25_CanceledOnlyByCancel ==
  session.status = "Canceled" =>
    /\ session.cancellation_reason # None
    /\ session.cancelled_at # None
    /\ session.cancelled_by # None

\* C26 (SlotRaceSpec): slot race.  However two create_session calls for
\* one room, date and time, or two assign_photographer calls for one
\* photographer on two sessions of one date and time, interleave, at most
\* one succeeds: the committed sessions never hold a room twice, nor a
\* photographer twice, in one slot.
C26_SlotRace ==
  \A i, j \in DOMAIN sessions :
    (i < j /\ Live(sessions[i]) /\ Live(sessions[j])) =>
      /\ ~ SameRoomSlot(sessions[i], sessions[j])
      /\ (/\ sessions[i].session.session_date
               = sessions[j].session.session_date
          /\ sessions[i].session.session_time # None
          /\ sessions[i].session.session_time
               = sessions[j].session.session_time)
         => \A a \in DOMAIN sessions[i].photographers,
               b \in DOMAIN sessions[j].photographers :
              sessions[i].photographers[a].photographer_id
                # sessions[j].photographers[b].photographer_id

\* C27 (PaymentRaceSpec): payment race.  However two record_payment calls
\* on one session interleave, the committed paid_amount is the sum of the
\* amounts of the accepted payments, and that sum never exceeds
\* total_amount.
C27_PaymentRace ==
  /\ session.paid_amount = LedgerNet(payments)
  /\ LedgerNet(payments) <= session.total_amount

\* C28 (TransitionRaceSpec): transition race.  However two status-changing
\* handlers on one session interleave, every committed status change is
\* one the table allows from the status committed before it, and the
\* history never holds two rows with the same from_status.
C28_TransitionRace ==
  [][/\ session'.status # session.status
          => session'.status \in AllowedTargets(session.status)
     /\ \A j, k \in DOMAIN history' :
          j # k => history'[j].from_status # history'[k].from_status]_vars

\* C29 (UnitOfWorkSpec): atomic unit of work.  In every committed state a
\* session row that exists has its creation row null -> REQUEST as the
\* first row of its history, and the newest history row leads to the
\* session's status: no status is committed without its history row and
\* no history row without its status.
C29_AtomicUnitOfWork ==
  session # None =>
    /\ history # <<>>
    /\ history[1] = [from_status |-> "null", to_status |-> "Request"]
    /\ history[Len(history)].to_status = session.status

\* C30 (EndpointSpec): validation before mutation.  Whenever an operation
\* ends in a business-rule error, the session, detail, payment, assignment
\* and history rows are exactly as they were before the call.
C30_ValidationBeforeMutation ==
  [][last'.err # "ok" =>
       /\ session' = session
       /\ details' = details
       /\ payments' = payments
       /\ photographers' = photographers
       /\ history' = history
       /\ sessions' = sessions]_vars

\* C31 (PathSpec): the path to the shooting day.  On a session with priced
\* lines whose paid_amount equals its deposit_amount, each step of the
\* sequence transition to PRE_SCHEDULED, transition to CONFIRMED,
\* assign_photographer (of a photographer not yet on the session),
\* mark_attended succeeds from the status the step before left: the status
\* becomes PRE_SCHEDULED, CONFIRMED, ASSIGNED, ATTENDED in turn and each
\* step appends exactly one history row for its status change.
C31_EndToEndPath ==
  [][LET deposit_paid == /\ details # <<>>
                         /\ session.deposit_amount > 0
                         /\ session.paid_amount = session.deposit_amount
         moved(to_status) ==
           /\ last'.err = "ok"
           /\ session'.status = to_status
           /\ history' = Append(history, [from_status |-> session.status,
                                          to_status |-> to_status])
     IN /\ (/\ session.status = "Request"
            /\ deposit_paid
            /\ TransitionStatus("Pre-scheduled")) => moved("Pre-scheduled")
        /\ (/\ session.status = "Pre-scheduled"
            /\ deposit_paid
            /\ TransitionStatus("Confirmed")) => moved("Confirmed")
        /\ \A p \in Crew :
             (/\ session.status = "Confirmed"
              /\ \A k \in DOMAIN photographers :
                   photographers[k].photographer_id # p
              /\ AssignPhotographer(p))
             => /\ moved("Assigned")
                /\ photographers' = Append(photographers,
                                           [photographer_id |-> p,
                                            attended |-> FALSE])
        /\ \A k \in DOMAIN photographers :
             (session.status = "Assigned" /\ MarkAttended(k))
             => /\ moved("Attended")
                /\ photographers'[k].attended]_vars

\* C31 witness: a session that paid exactly its deposit has gone from
\* REQUEST to ATTENDED in the four steps, with its five history rows.
C31_Witness ==
  /\ last.op = "mark_attended"
  /\ last.err = "ok"
  /\ session.status = "Attended"
  /\ session.deposit_amount > 0
  /\ session.paid_amount = session.deposit_amount
  /\ Len(photographers) = 1
  /\ photographers[1].attended
  /\ history = << [from_status |-> "null", to_status |-> "Request"],
                  [from_status |-> "Request", to_status |-> "Pre-scheduled"],
                  [from_status |-> "Pre-scheduled", to_status |-> "Confirmed"],
                  [from_status |-> "Confirmed", to_status |-> "Assigned"],
                  [from_status |-> "Assigned", to_status |-> "Attended"] >>

\* C32 (WindowSpec): the changes deadline is not in the past when it is
\* assigned.  A transition that enters PRE_SCHEDULED leaves a
\* changes_deadline on or after the day of the transition, for every
\* session_date that creation and update accept (session_date >= today).
C32_DeadlineNotInPast ==
  [][(/\ session.status # "Pre-scheduled"
      /\ session'.status = "Pre-scheduled"
      /\ session.session_date >= today)
     => /\ session'.changes_deadline # None
        /\ session'.changes_deadline[1] >= today]_vars

\* C35 (WindowSpec): the deadlines follow the session date.  A transition
\* that enters PRE_SCHEDULED sets payment_deadline = today +
\* PAYMENT_DEADLINE_DAYS and changes_deadline = session_date -
\* CHANGES_DEADLINE_DAYS, and after every step a changes_deadline that is
\* set equals session_date - CHANGES_DEADLINE_DAYS, also after
\* update_session has changed session_date.
C35_DeadlinesFollowDate ==
  [][/\ (session.status # "Pre-scheduled"
         /\ session'.status = "Pre-scheduled")
        => /\ session'.payment_deadline
                = Some(today + PAYMENT_DEADLINE_DAYS)
           /\ session'.changes_deadline
                = Some(session.session_date - CHANGES_DEADLINE_DAYS)
     /\ session'.changes_deadline # None
        => session'.changes_deadline
             = Some(session'.session_date - CHANGES_DEADLINE_DAYS)]_vars

\* C36 (FinanceSpec): no overpayment.  After any sequence of add item, add
\* package, remove_detail, recalculate_totals, record_payment and
\* cancel_session the session has paid_amount <= total_amount.
C36_NoOverpayment == session.paid_amount <= session.total_amount

\* C37 (CrewSpec): resources precede the statuses that need them.  A
\* session that is ASSIGNED, ATTENDED, IN_EDITING, READY_FOR_DELIVERY or
\* COMPLETED has at least one photographer assignment, and one that is
\* ATTENDED or later has at least one assignment with attended = true.
C37_ResourcesPrecedeStatus ==
  /\ session.status \in {"Assigned", "Attended", "In Editing",
                         "Ready for Delivery", "Completed"}
     => photographers # <<>>
  /\ session.status \in {"Attended", "In Editing", "Ready for Delivery",
                         "Completed"}
     => \E k \in DOMAIN photographers : photographers[k].attended

\* C38 (AttendanceRaceSpec): an all-attended session does not stay
\* ASSIGNED.  Once no mark is in flight and every assignment of the session
\* has been marked attended through PhotographerService.mark_attended, the
\* session is not ASSIGNED any more, however the marks of two photographers
\* interleave; and an ATTENDED session has exactly one history row that
\* leads to ATTENDED.
C38_AllAttendedLeavesAssigned ==
  /\ (/\ \A p \in Procs : requests[p] = NoRequest
      /\ photographers # <<>>
      /\ \A k \in DOMAIN photographers : photographers[k].attended)
     => session.status # "Assigned"
  /\ session.status = "Attended"
     => Cardinality({k \in DOMAIN history :
                       history[k].to_status = "Attended"}) = 1

\* C39 (RoomSpec): the session's own slot is no conflict.  An
\* update_session ends in RoomNotAvailable only when a different live
\* (neither CANCELED nor COMPLETED) session holds the room, date and time
\* that result from the update; an update that leaves the session in the
\* slot it already holds is accepted.
C39_OwnSlotIsNoConflict ==
  [][\A i \in 1..MaxSessions, u \in SessionUpdates :
       (/\ last'.op = "update_session"
        /\ last'.err = "RoomNotAvailable"
        /\ UpdateSession(i, u)) =>
         LET s == sessions[i].session
             result == [session |->
                          [s EXCEPT
                             !.room_id = Given(u, "room_id", s.room_id),
                             !.session_date = Given(u, "session_date",
                                                    s.session_date),
                             !.session_time = Given(u, "session_time",
                                                    s.session_time)]]
         IN \E j \in DOMAIN sessions :
              /\ j # i
              /\ Live(sessions[j])
              /\ SameRoomSlot(sessions[j], result)]_vars

\* The place of a status in the order of the lifecycle.
Rank(status) ==
  CASE status = "Request" -> 0
    [] status = "Negotiation" -> 1
    [] status = "Pre-scheduled" -> 2
    [] status = "Confirmed" -> 3
    [] status = "Assigned" -> 4
    [] status = "Attended" -> 5
    [] status = "In Editing" -> 6
    [] status = "Ready for Delivery" -> 7
    [] status = "Completed" -> 8
    [] status = "Canceled" -> 9

\* C40 (TransitionRaceSpec): bounded, ordered progress.  Every committed
\* status change leaves a non-terminal status for one later in the order
\* REQUEST, NEGOTIATION, PRE_SCHEDULED, CONFIRMED, ASSIGNED, ATTENDED,
\* IN_EDITING, READY_FOR_DELIVERY, COMPLETED, with CANCELED after all of
\* them: no status is entered twice or returned to, and nothing follows
\* CANCELED or COMPLETED; the history holds at most 8 status changes after
\* the creation row; and COMPLETED is entered only from READY_FOR_DELIVERY
\* by a session whose history leads through every status from
\* PRE_SCHEDULED to READY_FOR_DELIVERY.
C40_OrderedProgress ==
  [][/\ session'.status # session.status
        => /\ session.status \notin Terminal
           /\ Rank(session'.status) > Rank(session.status)
     /\ Len(history') <= 9
     /\ (session'.status = "Completed" /\ session.status # "Completed")
        => /\ session.status = "Ready for Delivery"
           /\ \A t \in {"Pre-scheduled", "Confirmed", "Assigned", "Attended",
                        "In Editing", "Ready for Delivery"} :
                \E k \in DOMAIN history : history[k].to_status = t]_vars

\* The account a token or a login names is there and is not Active.
IsInactive(email) ==
  \E u \in DOMAIN users : users[u].email = email /\ users[u].status # "Active"

IsActive(email) ==
  \E u \in DOMAIN users : users[u].email = email /\ users[u].status = "Active"

\* The step was taken by one of these handlers (each handler leaves its
\* name in last.op).
Handled(ops) == last'.op \in ops

AuthenticatedOps ==
  {"get_current_user_info", "logout", "update_user", "deactivate_user",
   "reactivate_user"}

\* A request of an authenticated endpoint carrying the bearer token t.
AuthenticatedRequest(t) ==
  \/ GetCurrentUserInfo(t)
  \/ \E r \in tokens : Logout(t, r)
  \/ \E u \in UserIds, d \in UserUpdates : UpdateUser(t, u, d)
  \/ \E u \in UserIds : DeactivateUser(t, u)
  \/ \E u \in UserIds : ReactivateUser(t, u)

C34_LogoutRevokes ==
  [][ /\ \A t, r \in tokens :
           Handled({"logout"}) /\ last'.err = "ok" /\ Logout(t, r)
             => /\ token_in_blocklist(token_blocklist', t.jti, clock')
                /\ token_in_blocklist(token_blocklist', r.jti, clock')
      /\ \A t \in tokens, m \in Waits :
           /\ token_in_blocklist(token_blocklist, t.jti, clock)
           /\ clock' < t.exp
           /\ Wait(m)
           => token_in_blocklist(token_blocklist', t.jti, clock')
      /\ \A t \in tokens :
           /\ Handled(AuthenticatedOps \cup {"refresh_token"})
           /\ token_in_blocklist(token_blocklist, t.jti, clock)
           /\ AuthenticatedRequest(t) \/ RefreshToken(t)
           => /\ last'.err # "ok"
              /\ <<users, tokens, token_blocklist>>'
                   = <<users, tokens, token_blocklist>>
    ]_vars

====
